---------------------------- MODULE Spec2Model ----------------------------
(***************************************************************************)
(* Content collections of andarms.com: the `blog` and `project` schemas of *)
(* the content config (zod object schemas handed to defineCollection), the *)
(* validation of front-matter records against them, and the build that     *)
(* validates every entry and then serves queries to the page layer.        *)
(***************************************************************************)
EXTENDS Integers, Sequences, FiniteSets, TLC

VARIABLES
    files,      \* collection name -> sequence of content files [id, raw], enumeration order
    pc,         \* the build: "syncing" | "rendering" | "aborted" | "done"
    pending,    \* the <<collection, index>> pairs not validated yet
    store,      \* collection name -> (index of a validated file -> its stored entry)
    failure,    \* the validation error that aborted the build: <<>> or <<[coll, index, issues]>>
    heap,       \* array objects: address -> sequence of values
    nextAddr,   \* next free heap address
    answers,    \* <<collection, predicate>>, once queried -> what the first such query returned
    last,       \* the latest query, what it returned, and whether it repeated an
                \* earlier one: <<>> or <<[key, value, repeated]>>
    again,      \* a stored record validated once more: <<>> or <<[coll, index, result]>>
    earlier,    \* a content file put through the earlier version of its schema:
                \* <<>> or <<[coll, index, result]>>
    component   \* the TaglineClient component: its hooks and what it displays

vars == <<files, pc, pending, store, failure, heap, nextAddr, answers, last, again,
          earlier, component>>

----------------------------------------------------------------------------
(* JavaScript values, as far as front matter produces them.  Every value   *)
(* has the same three fields: its type as zod's getParsedType reports it,  *)
(* a scalar payload (characters), and the items of an array.               *)

Value(t, v, items) == [t |-> t, v |-> v, items |-> items]

Undef == Value("undefined", <<>>, <<>>)
Null == Value("null", <<>>, <<>>)
Str(cs) == Value("string", cs, <<>>)
Num(cs) == Value("number", cs, <<>>)
Bool(b) == Value("boolean", IF b THEN <<"true">> ELSE <<"false">>, <<>>)
\* a Date object; getTime() is NaN for the invalid date
DateV(cs) == Value("date", cs, <<>>)
Arr(items) == Value("array", <<>>, items)

\* the text of some strings used below
Chars_Hello == <<"H", "e", "l", "l", "o">>
Chars_X == <<"X">>
Chars_Day == <<"2", "0", "2", "6", "-", "0", "1", "-", "1", "5">>
Chars_Desc ==
    <<"A", "d", "d", "i", "n", "g", " ", "b", "a", "s", "i", "c", " ",
      "c", "o", "l", "l", "i", "s", "i", "o", "n", " ", "d", "e", "t",
      "e", "c", "t", "i", "o", "n", " ", "t", "o", " ", "t", "h", "e",
      " ", "g", "a", "m", "e", " ", "e", "n", "g", "i", "n", "e">>
Chars_GameEngine == <<"g", "a", "m", "e", "-", "e", "n", "g", "i", "n", "e">>
Chars_Site == <<"s", "i", "t", "e">>
Chars_Nope == <<"n", "o", "p", "e">>
Chars_Thumb ==
    <<"/", "i", "m", "a", "g", "e", "s", "/", "p", "r", "o", "j", "e",
      "c", "t", "s", "/", "g", "a", "m", "e", "-", "e", "n", "g", "i",
      "n", "e", "-", "t", "h", "u", "m", "b", "n", "a", "i", "l", "s",
      ".", "p", "n", "g">>
Chars_Author == <<"a", "n", "d", "a", "r", "m", "s">>
Chars_Https == <<"h", "t", "t", "p", "s", ":", "/", "/", "a", "n", "d", "a", "r", "m", "s", ".", "c", "o", "m">>
Chars_NotAUrl == <<"n", "o", "t", " ", "a", " ", "u", "r", "l">>
Chars_NotDashUrl == <<"n", "o", "t", "-", "a", "-", "u", "r", "l">>
Chars_NoHost == <<"h", "t", "t", "p", ":", "/", "/">>
Chars_Mailto == <<"m", "a", "i", "l", "t", "o", ":", "a">>
Chars_Bare == <<"a", "n", "d", "a", "r", "m", "s", ".", "c", "o", "m">>
\* more strings for url and repo: six that new URL() takes
Chars_FilePath == <<"f", "i", "l", "e", ":", "a", " ", "b">>
Chars_UpperScheme == <<"H", "T", "T", "P", ":", "/", "/", "h">>
Chars_UserInfo == <<"h", "t", "t", "p", ":", "/", "/", "u", ":", "p", "@", "h">>
Chars_IPv6 == <<"h", "t", "t", "p", ":", "/", "/", "[", ":", ":", "1", "]">>
Chars_TabFirst == <<"\t", "h", "t", "t", "p", ":", "/", "/", "a">>
Chars_OneLetter == <<"A", ":", "x">>
\* and eight that it throws on
Chars_FilePort == <<"f", "i", "l", "e", ":", "/", "/", "a", ":", "8", "0", "/", "x">>
Chars_BigPort == <<"h", "t", "t", "p", ":", "/", "/", "a", ":", "9", "9", "9", "9", "9">>
Chars_SchemeOnly == <<"H", "t", "t", "p", ":", "/", "/">>
Chars_Percent == <<"h", "t", "t", "p", ":", "/", "/", "a", "%", "b">>
Chars_FiveParts == <<"h", "t", "t", "p", ":", "/", "/", "1", ".", "2", ".", "3", ".", "4", ".", "5">>
Chars_PortNoHost == <<"f", "o", "o", ":", "/", "/", ":", "8", "0">>
Chars_BadIPv4 == <<"h", "t", "t", "p", ":", "/", "/", "2", "5", "6", ".", "1", ".", "1", ".", "1">>
Chars_Angle == <<"h", "t", "t", "p", ":", "/", "/", "a", "<", "b">>
\* hosts that go through domain to ASCII, and C0 controls
Chars_Punycode == <<"h", "t", "t", "p", ":", "/", "/", "x", "n", "-", "-", "9", "c", "a">>
Chars_PunycodeEscaped == <<"h", "t", "t", "p", ":", "/", "/", "x", "%", "6", "E", "-", "-", "9", "c", "a">>
Chars_EmptyPunycode == <<"h", "t", "t", "p", ":", "/", "/", "x", "n", "-", "-">>
Chars_Replacement == <<"h", "t", "t", "p", ":", "/", "/", "%", "E", "F", "%", "B", "F", "%", "B", "D">>
Chars_SoftHyphen == <<"h", "t", "t", "p", ":", "/", "/", "%", "C", "2", "%", "A", "D">>
Chars_WidePercent == <<"h", "t", "t", "p", ":", "/", "/", "%", "E", "F", "%", "B", "C", "%", "8", "5">>
Chars_ControlFirst == <<"U+0001", "a", ":", "x">>
Chars_ControlInHost == <<"h", "t", "t", "p", ":", "/", "/", "a", "U+0001", "b">>
Chars_Accent == <<"h", "t", "t", "p", ":", "/", "/", "U+00E9">>
Chars_Bidi == <<"h", "t", "t", "p", ":", "/", "/", "U+05D0", "a">>
Chars_BidiLast == <<"h", "t", "t", "p", ":", "/", "/", "a", "U+05D0">>
Chars_PunycodeOfAscii == <<"h", "t", "t", "p", ":", "/", "/", "x", "n", "-", "-", "a", "-">>
Chars_PunycodeHyphen == <<"h", "t", "t", "p", ":", "/", "/", "x", "n", "-", "-", "-", "9", "c", "a">>
Chars_PunycodeLater == <<"h", "t", "t", "p", ":", "/", "/", "x", "n", "-", "-", "2", "w", "b", "x">>
Chars_NonJoiner == <<"h", "t", "t", "p", ":", "/", "/", "U+10AC0", "U+200C", "U+10AC0">>
Chars_BidiMark == <<"h", "t", "t", "p", ":", "/", "/", "U+05D0", "U+1734">>
Chars_NonJoinerMandaic == <<"h", "t", "t", "p", ":", "/", "/", "a", "U+0850", "U+200C", "U+0628">>
Chars_NonJoinerSupplement == <<"h", "t", "t", "p", ":", "/", "/", "a", "U+0767", "U+200C", "U+0628">>

----------------------------------------------------------------------------
(* new URL(s) without a base, which z.string().url() calls: does it parse? *)
(* The URL parser is followed state by state, for what makes it fail, on   *)
(* the code points of the string.  In a string of this module a character  *)
(* is written as itself when it is printable ASCII, tab, line feed, form   *)
(* feed or carriage return, and by its code point otherwise, in upper-case *)
(* hexadecimal digits: "U+0001", "U+00E9", "U+1F600".  The host of a       *)
(* special scheme goes through domain to ASCII, as the URL parser of the   *)
(* Node 20 that runs the build does it (mapping of UTS #46, NFC, Punycode, *)
(* validity of the labels).                                                *)

\* U+0020 to U+007E, in order; the grave accent cannot be written as itself
Ascii == <<" ", "!", "\"", "#", "$", "%", "&", "'", "(", ")", "*", "+", ",",
         "-", ".", "/", "0", "1", "2", "3", "4", "5", "6", "7", "8", "9",
         ":", ";", "<", "=", ">", "?", "@", "A", "B", "C", "D", "E", "F",
         "G", "H", "I", "J", "K", "L", "M", "N", "O", "P", "Q", "R", "S",
         "T", "U", "V", "W", "X", "Y", "Z", "[", "\\", "]", "^", "_", "U+0060",
         "a", "b", "c", "d", "e", "f", "g", "h", "i", "j", "k", "l", "m",
         "n", "o", "p", "q", "r", "s", "t", "u", "v", "w", "x", "y", "z",
         "{", "|", "}", "~">>

\* the code point of every character that is written as itself
CodeOf ==
    [c \in {Ascii[j] : j \in 1..Len(Ascii)} |-> 31 + CHOOSE j \in 1..Len(Ascii) : Ascii[j] = c]
        @@ ("\t" :> 9) @@ ("\n" :> 10) @@ ("\f" :> 12) @@ ("\r" :> 13)

\* the code points that the parser tests for
Char ==
    [percent |-> 37, hyphen |-> 45, dot |-> 46, slash |-> 47, zero |-> 48, colon |-> 58,
     question |-> 63, at |-> 64, leftBracket |-> 91, backslash |-> 92, rightBracket |-> 93,
     bar |-> 124, hash |-> 35, x |-> 120, X |-> 88]

\* A to Z and a to z
AlphaChars == (65..90) \cup (97..122)
\* 0 to 9
DigitChars == 48..57
\* and A to F, a to f
HexChars == DigitChars \cup (65..70) \cup (97..102)
\* and + - .
SchemeChars == AlphaChars \cup DigitChars \cup {43, 45, 46}

\* U+0000 to U+0020
C0ControlOrSpace == 0..32
\* tab, line feed, carriage return
TabOrNewline == {9, 10, 13}
\* U+0000, tab, line feed, carriage return, space, # / : < > ? @ [ \ ] ^ |
ForbiddenHost == {0, 9, 10, 13, 32, 35, 47, 58, 60, 62, 63, 64, 91, 92, 93, 94, 124}
\* and the C0 controls, %, U+007F
ForbiddenDomain == ForbiddenHost \cup (0..31) \cup {37, 127}

ToLower(c) == IF c \in 65..90 THEN c + 32 ELSE c
LowerCase(s) == [j \in 1..Len(s) |-> ToLower(s[j])]

\* the value of an ASCII hex digit
HexVal(c) == IF c \in DigitChars THEN c - 48 ELSE ToLower(c) - 87

\* U+FFFD
ReplacementCharacter == 65533

\* the number that the hexadecimal digits of string h write, after n
RECURSIVE HexNumber(_, _)
HexNumber(h, n) ==
    IF h = "" THEN n ELSE HexNumber(Tail(h), (16 * n) + HexVal(CodeOf[Head(h)]))

\* the code points of a string of this module.  The string is converted to
\* scalar values: a surrogate, which can only be a lone one here, becomes
\* U+FFFD.
CodePoints(cs) ==
    LET scalar(n) == IF n \in 55296..57343 THEN ReplacementCharacter ELSE n
    IN  SubSeq([j \in 1..Len(cs) |->
                    IF cs[j] \in DOMAIN CodeOf THEN CodeOf[cs[j]]
                    ELSE scalar(HexNumber(SubSeq(cs[j], 3, Len(cs[j])), 0))],
               1, Len(cs))

\* http, https, ftp, ws, wss
SpecialSchemes ==
    {<<104, 116, 116, 112>>, <<104, 116, 116, 112, 115>>, <<102, 116, 112>>,
     <<119, 115>>, <<119, 115, 115>>}
\* file
FileScheme == <<102, 105, 108, 101>>

\* the sequences ss[lo] to ss[hi], one after the other
RECURSIVE Flatten(_, _, _)
Flatten(ss, lo, hi) ==
    IF lo > hi THEN <<>>
    ELSE IF lo = hi THEN ss[lo]
    ELSE Flatten(ss, lo, (lo + hi) \div 2) \o Flatten(ss, ((lo + hi) \div 2) + 1, hi)

\* A loop of the code that reads its input from a pointer on is a machine:
\* its state is a record with the pointer p, and a step reads at the pointer
\* and advances it.  Run is the state of the machine that started in state
\* st when its pointer has left lo..hi; it is computed by halves.
RECURSIVE Run(_, _, _, _)
Run(step(_), st, lo, hi) ==
    IF st.p > hi THEN st
    ELSE IF lo = hi THEN step(st)
    ELSE Run(step, Run(step, st, lo, (lo + hi) \div 2), ((lo + hi) \div 2) + 1, hi)

\* the last element of a sequence that is not empty
Final(s) == s[Len(s)]
\* the index of the first element of s at or after i that is in set cs, or Len(s)+1
FirstIn(s, i, cs) ==
    Head(SelectSeq([j \in 1..(Len(s) + 1) |-> j],
                   LAMBDA j : j > Len(s) \/ (j >= i /\ s[j] \in cs)))
\* the index of the first element of s at or after i that is not in set cs, or Len(s)+1
FirstNotIn(s, i, cs) ==
    Head(SelectSeq([j \in 1..(Len(s) + 1) |-> j],
                   LAMBDA j : j > Len(s) \/ (j >= i /\ s[j] \notin cs)))
\* the index of the last element of s at or before i that is in set cs, or 0
LastIn(s, i, cs) ==
    Final(SelectSeq([j \in 1..(Len(s) + 1) |-> j - 1],
                    LAMBDA j : j = 0 \/ (j <= i /\ s[j] \in cs)))
\* the index of the last element of s at or before i that is not in set cs, or 0
LastNotIn(s, i, cs) ==
    Final(SelectSeq([j \in 1..(Len(s) + 1) |-> j - 1],
                    LAMBDA j : j = 0 \/ (j <= i /\ s[j] \notin cs)))

\* leading and trailing C0 controls and spaces are stripped, then every tab
\* and newline is removed, before parsing
Trim(s) ==
    SelectSeq(SubSeq(s, FirstNotIn(s, 1, C0ControlOrSpace), LastNotIn(s, Len(s), C0ControlOrSpace)),
              LAMBDA c : c \notin TabOrNewline)

\* s cut before the indices of sequence at, which it is without
Cut(s, at) ==
    SubSeq([k \in 1..(Len(at) + 1) |->
                SubSeq(s, (IF k = 1 THEN 0 ELSE at[k - 1]) + 1,
                          (IF k > Len(at) THEN Len(s) + 1 ELSE at[k]) - 1)],
           1, Len(at) + 1)
\* s strictly split on sep
Split(s, sep) == Cut(s, SelectSeq([j \in 1..Len(s) |-> j], LAMBDA j : s[j] = sep))

\* numbers are kept in two 16-bit halves <<high, low>>; the high half stops
\* at Half, which stands for every number of 2^32 and above
Half == 65536

\* number n, times radix R, and v
Shift(n, v, R) ==
    <<IF (n[1] * R) + (((n[2] * R) + v) \div Half) > Half THEN Half
      ELSE (n[1] * R) + (((n[2] * R) + v) \div Half),
      ((n[2] * R) + v) % Half>>
\* the number that the digits d write in radix R
RECURSIVE Positional(_, _)
Positional(d, R) ==
    IF d = <<>> THEN <<0, 0>>
    ELSE Shift(Positional(SubSeq(d, 1, Len(d) - 1), R), HexVal(d[Len(d)]), R)
\* the number that the digits ds write in radix R, which is 8, 10 or 16:
\* more than eleven digits after the leading zeros write 2^32 or more
Number(ds, R) ==
    IF Len(ds) - FirstNotIn(ds, 1, {Char.zero}) >= 11 THEN <<Half, 0>>
    ELSE Positional(SubSeq(ds, FirstNotIn(ds, 1, {Char.zero}), Len(ds)), R)

\* port state: ASCII digits, and the number is no larger than 65535
PortOK(port) ==
    /\ \A j \in 1..Len(port) : port[j] \in DigitChars
    /\ Number(port, 10)[1] = 0

IsAscii(s) == \A j \in 1..Len(s) : s[j] < 128

\* UTF-8 encode: the bytes of the scalar values of s; an ASCII string is
\* its own bytes
Utf8Encode(s) ==
    IF IsAscii(s) THEN s
    ELSE
    Flatten([j \in 1..Len(s) |->
                IF s[j] < 128 THEN <<s[j]>>
                ELSE IF s[j] < 2048 THEN <<192 + (s[j] \div 64), 128 + (s[j] % 64)>>
                ELSE IF s[j] < 65536
                THEN <<224 + (s[j] \div 4096), 128 + ((s[j] \div 64) % 64), 128 + (s[j] % 64)>>
                ELSE <<240 + (s[j] \div 262144), 128 + ((s[j] \div 4096) % 64),
                       128 + ((s[j] \div 64) % 64), 128 + (s[j] % 64)>>],
            1, Len(s))

\* percent-decode: every % followed by two hex digits becomes its byte;
\* what has no % is left as it is
PercentDecode(s) ==
    LET step(st) ==
            IF /\ s[st.p] = Char.percent
               /\ st.p + 2 <= Len(s)
               /\ s[st.p + 1] \in HexChars
               /\ s[st.p + 2] \in HexChars
            THEN [p |-> st.p + 3,
                  output |-> Append(st.output,
                                    (16 * HexVal(s[st.p + 1])) + HexVal(s[st.p + 2]))]
            ELSE [p |-> st.p + 1, output |-> Append(st.output, s[st.p])]
    IN  IF \A j \in 1..Len(s) : s[j] # Char.percent THEN s
        ELSE Run(step, [p |-> 1, output |-> <<>>], 1, Len(s)).output

\* UTF-8 decode without BOM.  The state of the UTF-8 decoder is codePoint,
\* bytesSeen, bytesNeeded and the boundaries of the next byte; an error gives
\* U+FFFD, and a byte that cannot continue a sequence is read again as a
\* first byte.  The end of the input is read as well, at Len(bs) + 1: it is
\* an error if bytes are needed.  The bytes EF BB BF at the start are left
\* out.  Bytes that are all below 128 are their own code points.
Utf8DecodeWithoutBOM(bs) ==
    LET \* the code point c is complete; the pointer stays
        emit(st, c) ==
            [st EXCEPT !.output = Append(@, c), !.codePoint = 0, !.bytesSeen = 0,
                       !.bytesNeeded = 0, !.lowerBoundary = 128, !.upperBoundary = 191]
        \* byte b is read when no bytes are needed
        lead(st, b) ==
            IF b <= 127 THEN emit(st, b)
            ELSE IF b \in 194..223 THEN [st EXCEPT !.bytesNeeded = 1, !.codePoint = b % 32]
            ELSE IF b \in 224..239
            THEN [st EXCEPT !.bytesNeeded = 2, !.codePoint = b % 16,
                            !.lowerBoundary = IF b = 224 THEN 160 ELSE 128,
                            !.upperBoundary = IF b = 237 THEN 159 ELSE 191]
            ELSE IF b \in 240..244
            THEN [st EXCEPT !.bytesNeeded = 3, !.codePoint = b % 8,
                            !.lowerBoundary = IF b = 240 THEN 144 ELSE 128,
                            !.upperBoundary = IF b = 244 THEN 143 ELSE 191]
            ELSE emit(st, ReplacementCharacter)
        \* byte b is read
        read(st, b) ==
            IF st.bytesNeeded = 0 THEN lead(st, b)
            ELSE IF b \notin st.lowerBoundary..st.upperBoundary
            THEN lead(emit(st, ReplacementCharacter), b)
            ELSE IF st.bytesSeen + 1 = st.bytesNeeded
            THEN emit(st, (st.codePoint * 64) + (b % 64))
            ELSE [st EXCEPT !.codePoint = (@ * 64) + (b % 64), !.bytesSeen = @ + 1,
                            !.lowerBoundary = 128, !.upperBoundary = 191]
        step(st) ==
            IF st.p <= Len(bs) THEN read([st EXCEPT !.p = @ + 1], bs[st.p])
            ELSE IF st.bytesNeeded # 0 THEN emit([st EXCEPT !.p = @ + 1], ReplacementCharacter)
            ELSE [st EXCEPT !.p = @ + 1]
    IN  IF IsAscii(bs) THEN bs
        ELSE Run(step,
                 [p |-> IF Len(bs) >= 3 /\ SubSeq(bs, 1, 3) = <<239, 187, 191>> THEN 4 ELSE 1,
                  output |-> <<>>, codePoint |-> 0, bytesSeen |-> 0,
                  bytesNeeded |-> 0, lowerBoundary |-> 128, upperBoundary |-> 191],
                 1, Len(bs) + 1).output

(* The Unicode data that domain to ASCII reads.  A table of ranges has a   *)
(* row for every code point where the value changes, in order: the row     *)
(* holds for the code points up to the next row.  The mapping table and    *)
(* the data of normalization are of Unicode 15.0.  The data of the label   *)
(* check are of Unicode 13.0: a code point assigned later is in none of    *)
(* them (it is no mark, no virama, and of no Bidi class).                  *)

\* the IDNA mapping table of UTS #46, read with UseSTD3ASCIIRules false and
\* non-transitional processing: <<first code point, status, mapping>>
IdnaMappingTable == <<
    <<0, "valid", <<>>>>, <<65, "mapped", <<97>>>>, <<66, "mapped", <<98>>>>,
    <<67, "mapped", <<99>>>>, <<68, "mapped", <<100>>>>, <<69, "mapped", <<101>>>>,
    <<70, "mapped", <<102>>>>, <<71, "mapped", <<103>>>>, <<72, "mapped", <<104>>>>,
    <<73, "mapped", <<105>>>>, <<74, "mapped", <<106>>>>, <<75, "mapped", <<107>>>>,
    <<76, "mapped", <<108>>>>, <<77, "mapped", <<109>>>>, <<78, "mapped", <<110>>>>,
    <<79, "mapped", <<111>>>>, <<80, "mapped", <<112>>>>, <<81, "mapped", <<113>>>>,
    <<82, "mapped", <<114>>>>, <<83, "mapped", <<115>>>>, <<84, "mapped", <<116>>>>,
    <<85, "mapped", <<117>>>>, <<86, "mapped", <<118>>>>, <<87, "mapped", <<119>>>>,
    <<88, "mapped", <<120>>>>, <<89, "mapped", <<121>>>>, <<90, "mapped", <<122>>>>,
    <<91, "valid", <<>>>>, <<128, "disallowed", <<>>>>, <<160, "mapped", <<32>>>>,
    <<161, "valid", <<>>>>, <<168, "mapped", <<32, 776>>>>, <<169, "valid", <<>>>>,
    <<170, "mapped", <<97>>>>, <<171, "valid", <<>>>>, <<173, "ignored", <<>>>>,
    <<174, "valid", <<>>>>, <<175, "mapped", <<32, 772>>>>, <<176, "valid", <<>>>>,
    <<178, "mapped", <<50>>>>, <<179, "mapped", <<51>>>>, <<180, "mapped", <<32, 769>>>>,
    <<181, "mapped", <<956>>>>, <<182, "valid", <<>>>>, <<184, "mapped", <<32, 807>>>>,
    <<185, "mapped", <<49>>>>, <<186, "mapped", <<111>>>>, <<187, "valid", <<>>>>,
    <<188, "mapped", <<49, 8260, 52>>>>, <<189, "mapped", <<49, 8260, 50>>>>,
    <<190, "mapped", <<51, 8260, 52>>>>, <<191, "valid", <<>>>>, <<192, "mapped", <<224>>>>,
    <<193, "mapped", <<225>>>>, <<194, "mapped", <<226>>>>, <<195, "mapped", <<227>>>>,
    <<196, "mapped", <<228>>>>, <<197, "mapped", <<229>>>>, <<198, "mapped", <<230>>>>,
    <<199, "mapped", <<231>>>>, <<200, "mapped", <<232>>>>, <<201, "mapped", <<233>>>>,
    <<202, "mapped", <<234>>>>, <<203, "mapped", <<235>>>>, <<204, "mapped", <<236>>>>,
    <<205, "mapped", <<237>>>>, <<206, "mapped", <<238>>>>, <<207, "mapped", <<239>>>>,
    <<208, "mapped", <<240>>>>, <<209, "mapped", <<241>>>>, <<210, "mapped", <<242>>>>,
    <<211, "mapped", <<243>>>>, <<212, "mapped", <<244>>>>, <<213, "mapped", <<245>>>>,
    <<214, "mapped", <<246>>>>, <<215, "valid", <<>>>>, <<216, "mapped", <<248>>>>,
    <<217, "mapped", <<249>>>>, <<218, "mapped", <<250>>>>, <<219, "mapped", <<251>>>>,
    <<220, "mapped", <<252>>>>, <<221, "mapped", <<253>>>>, <<222, "mapped", <<254>>>>,
    <<223, "valid", <<>>>>, <<256, "mapped", <<257>>>>, <<257, "valid", <<>>>>,
    <<258, "mapped", <<259>>>>, <<259, "valid", <<>>>>, <<260, "mapped", <<261>>>>,
    <<261, "valid", <<>>>>, <<262, "mapped", <<263>>>>, <<263, "valid", <<>>>>,
    <<264, "mapped", <<265>>>>, <<265, "valid", <<>>>>, <<266, "mapped", <<267>>>>,
    <<267, "valid", <<>>>>, <<268, "mapped", <<269>>>>, <<269, "valid", <<>>>>,
    <<270, "mapped", <<271>>>>, <<271, "valid", <<>>>>, <<272, "mapped", <<273>>>>,
    <<273, "valid", <<>>>>, <<274, "mapped", <<275>>>>, <<275, "valid", <<>>>>,
    <<276, "mapped", <<277>>>>, <<277, "valid", <<>>>>, <<278, "mapped", <<279>>>>,
    <<279, "valid", <<>>>>, <<280, "mapped", <<281>>>>, <<281, "valid", <<>>>>,
    <<282, "mapped", <<283>>>>, <<283, "valid", <<>>>>, <<284, "mapped", <<285>>>>,
    <<285, "valid", <<>>>>, <<286, "mapped", <<287>>>>, <<287, "valid", <<>>>>,
    <<288, "mapped", <<289>>>>, <<289, "valid", <<>>>>, <<290, "mapped", <<291>>>>,
    <<291, "valid", <<>>>>, <<292, "mapped", <<293>>>>, <<293, "valid", <<>>>>,
    <<294, "mapped", <<295>>>>, <<295, "valid", <<>>>>, <<296, "mapped", <<297>>>>,
    <<297, "valid", <<>>>>, <<298, "mapped", <<299>>>>, <<299, "valid", <<>>>>,
    <<300, "mapped", <<301>>>>, <<301, "valid", <<>>>>, <<302, "mapped", <<303>>>>,
    <<303, "valid", <<>>>>, <<304, "mapped", <<105, 775>>>>, <<305, "valid", <<>>>>,
    <<306, "mapped", <<105, 106>>>>, <<308, "mapped", <<309>>>>, <<309, "valid", <<>>>>,
    <<310, "mapped", <<311>>>>, <<311, "valid", <<>>>>, <<313, "mapped", <<314>>>>,
    <<314, "valid", <<>>>>, <<315, "mapped", <<316>>>>, <<316, "valid", <<>>>>,
    <<317, "mapped", <<318>>>>, <<318, "valid", <<>>>>, <<319, "mapped", <<108, 183>>>>,
    <<321, "mapped", <<322>>>>, <<322, "valid", <<>>>>, <<323, "mapped", <<324>>>>,
    <<324, "valid", <<>>>>, <<325, "mapped", <<326>>>>, <<326, "valid", <<>>>>,
    <<327, "mapped", <<328>>>>, <<328, "valid", <<>>>>, <<329, "mapped", <<700, 110>>>>,
    <<330, "mapped", <<331>>>>, <<331, "valid", <<>>>>, <<332, "mapped", <<333>>>>,
    <<333, "valid", <<>>>>, <<334, "mapped", <<335>>>>, <<335, "valid", <<>>>>,
    <<336, "mapped", <<337>>>>, <<337, "valid", <<>>>>, <<338, "mapped", <<339>>>>,
    <<339, "valid", <<>>>>, <<340, "mapped", <<341>>>>, <<341, "valid", <<>>>>,
    <<342, "mapped", <<343>>>>, <<343, "valid", <<>>>>, <<344, "mapped", <<345>>>>,
    <<345, "valid", <<>>>>, <<346, "mapped", <<347>>>>, <<347, "valid", <<>>>>,
    <<348, "mapped", <<349>>>>, <<349, "valid", <<>>>>, <<350, "mapped", <<351>>>>,
    <<351, "valid", <<>>>>, <<352, "mapped", <<353>>>>, <<353, "valid", <<>>>>,
    <<354, "mapped", <<355>>>>, <<355, "valid", <<>>>>, <<356, "mapped", <<357>>>>,
    <<357, "valid", <<>>>>, <<358, "mapped", <<359>>>>, <<359, "valid", <<>>>>,
    <<360, "mapped", <<361>>>>, <<361, "valid", <<>>>>, <<362, "mapped", <<363>>>>,
    <<363, "valid", <<>>>>, <<364, "mapped", <<365>>>>, <<365, "valid", <<>>>>,
    <<366, "mapped", <<367>>>>, <<367, "valid", <<>>>>, <<368, "mapped", <<369>>>>,
    <<369, "valid", <<>>>>, <<370, "mapped", <<371>>>>, <<371, "valid", <<>>>>,
    <<372, "mapped", <<373>>>>, <<373, "valid", <<>>>>, <<374, "mapped", <<375>>>>,
    <<375, "valid", <<>>>>, <<376, "mapped", <<255>>>>, <<377, "mapped", <<378>>>>,
    <<378, "valid", <<>>>>, <<379, "mapped", <<380>>>>, <<380, "valid", <<>>>>,
    <<381, "mapped", <<382>>>>, <<382, "valid", <<>>>>, <<383, "mapped", <<115>>>>,
    <<384, "valid", <<>>>>, <<385, "mapped", <<595>>>>, <<386, "mapped", <<387>>>>,
    <<387, "valid", <<>>>>, <<388, "mapped", <<389>>>>, <<389, "valid", <<>>>>,
    <<390, "mapped", <<596>>>>, <<391, "mapped", <<392>>>>, <<392, "valid", <<>>>>,
    <<393, "mapped", <<598>>>>, <<394, "mapped", <<599>>>>, <<395, "mapped", <<396>>>>,
    <<396, "valid", <<>>>>, <<398, "mapped", <<477>>>>, <<399, "mapped", <<601>>>>,
    <<400, "mapped", <<603>>>>, <<401, "mapped", <<402>>>>, <<402, "valid", <<>>>>,
    <<403, "mapped", <<608>>>>, <<404, "mapped", <<611>>>>, <<405, "valid", <<>>>>,
    <<406, "mapped", <<617>>>>, <<407, "mapped", <<616>>>>, <<408, "mapped", <<409>>>>,
    <<409, "valid", <<>>>>, <<412, "mapped", <<623>>>>, <<413, "mapped", <<626>>>>,
    <<414, "valid", <<>>>>, <<415, "mapped", <<629>>>>, <<416, "mapped", <<417>>>>,
    <<417, "valid", <<>>>>, <<418, "mapped", <<419>>>>, <<419, "valid", <<>>>>,
    <<420, "mapped", <<421>>>>, <<421, "valid", <<>>>>, <<422, "mapped", <<640>>>>,
    <<423, "mapped", <<424>>>>, <<424, "valid", <<>>>>, <<425, "mapped", <<643>>>>,
    <<426, "valid", <<>>>>, <<428, "mapped", <<429>>>>, <<429, "valid", <<>>>>,
    <<430, "mapped", <<648>>>>, <<431, "mapped", <<432>>>>, <<432, "valid", <<>>>>,
    <<433, "mapped", <<650>>>>, <<434, "mapped", <<651>>>>, <<435, "mapped", <<436>>>>,
    <<436, "valid", <<>>>>, <<437, "mapped", <<438>>>>, <<438, "valid", <<>>>>,
    <<439, "mapped", <<658>>>>, <<440, "mapped", <<441>>>>, <<441, "valid", <<>>>>,
    <<444, "mapped", <<445>>>>, <<445, "valid", <<>>>>, <<452, "mapped", <<100, 382>>>>,
    <<455, "mapped", <<108, 106>>>>, <<458, "mapped", <<110, 106>>>>, <<461, "mapped", <<462>>>>,
    <<462, "valid", <<>>>>, <<463, "mapped", <<464>>>>, <<464, "valid", <<>>>>,
    <<465, "mapped", <<466>>>>, <<466, "valid", <<>>>>, <<467, "mapped", <<468>>>>,
    <<468, "valid", <<>>>>, <<469, "mapped", <<470>>>>, <<470, "valid", <<>>>>,
    <<471, "mapped", <<472>>>>, <<472, "valid", <<>>>>, <<473, "mapped", <<474>>>>,
    <<474, "valid", <<>>>>, <<475, "mapped", <<476>>>>, <<476, "valid", <<>>>>,
    <<478, "mapped", <<479>>>>, <<479, "valid", <<>>>>, <<480, "mapped", <<481>>>>,
    <<481, "valid", <<>>>>, <<482, "mapped", <<483>>>>, <<483, "valid", <<>>>>,
    <<484, "mapped", <<485>>>>, <<485, "valid", <<>>>>, <<486, "mapped", <<487>>>>,
    <<487, "valid", <<>>>>, <<488, "mapped", <<489>>>>, <<489, "valid", <<>>>>,
    <<490, "mapped", <<491>>>>, <<491, "valid", <<>>>>, <<492, "mapped", <<493>>>>,
    <<493, "valid", <<>>>>, <<494, "mapped", <<495>>>>, <<495, "valid", <<>>>>,
    <<497, "mapped", <<100, 122>>>>, <<500, "mapped", <<501>>>>, <<501, "valid", <<>>>>,
    <<502, "mapped", <<405>>>>, <<503, "mapped", <<447>>>>, <<504, "mapped", <<505>>>>,
    <<505, "valid", <<>>>>, <<506, "mapped", <<507>>>>, <<507, "valid", <<>>>>,
    <<508, "mapped", <<509>>>>, <<509, "valid", <<>>>>, <<510, "mapped", <<511>>>>,
    <<511, "valid", <<>>>>, <<512, "mapped", <<513>>>>, <<513, "valid", <<>>>>,
    <<514, "mapped", <<515>>>>, <<515, "valid", <<>>>>, <<516, "mapped", <<517>>>>,
    <<517, "valid", <<>>>>, <<518, "mapped", <<519>>>>, <<519, "valid", <<>>>>,
    <<520, "mapped", <<521>>>>, <<521, "valid", <<>>>>, <<522, "mapped", <<523>>>>,
    <<523, "valid", <<>>>>, <<524, "mapped", <<525>>>>, <<525, "valid", <<>>>>,
    <<526, "mapped", <<527>>>>, <<527, "valid", <<>>>>, <<528, "mapped", <<529>>>>,
    <<529, "valid", <<>>>>, <<530, "mapped", <<531>>>>, <<531, "valid", <<>>>>,
    <<532, "mapped", <<533>>>>, <<533, "valid", <<>>>>, <<534, "mapped", <<535>>>>,
    <<535, "valid", <<>>>>, <<536, "mapped", <<537>>>>, <<537, "valid", <<>>>>,
    <<538, "mapped", <<539>>>>, <<539, "valid", <<>>>>, <<540, "mapped", <<541>>>>,
    <<541, "valid", <<>>>>, <<542, "mapped", <<543>>>>, <<543, "valid", <<>>>>,
    <<544, "mapped", <<414>>>>, <<545, "valid", <<>>>>, <<546, "mapped", <<547>>>>,
    <<547, "valid", <<>>>>, <<548, "mapped", <<549>>>>, <<549, "valid", <<>>>>,
    <<550, "mapped", <<551>>>>, <<551, "valid", <<>>>>, <<552, "mapped", <<553>>>>,
    <<553, "valid", <<>>>>, <<554, "mapped", <<555>>>>, <<555, "valid", <<>>>>,
    <<556, "mapped", <<557>>>>, <<557, "valid", <<>>>>, <<558, "mapped", <<559>>>>,
    <<559, "valid", <<>>>>, <<560, "mapped", <<561>>>>, <<561, "valid", <<>>>>,
    <<562, "mapped", <<563>>>>, <<563, "valid", <<>>>>, <<570, "mapped", <<11365>>>>,
    <<571, "mapped", <<572>>>>, <<572, "valid", <<>>>>, <<573, "mapped", <<410>>>>,
    <<574, "mapped", <<11366>>>>, <<575, "valid", <<>>>>, <<577, "mapped", <<578>>>>,
    <<578, "valid", <<>>>>, <<579, "mapped", <<384>>>>, <<580, "mapped", <<649>>>>,
    <<581, "mapped", <<652>>>>, <<582, "mapped", <<583>>>>, <<583, "valid", <<>>>>,
    <<584, "mapped", <<585>>>>, <<585, "valid", <<>>>>, <<586, "mapped", <<587>>>>,
    <<587, "valid", <<>>>>, <<588, "mapped", <<589>>>>, <<589, "valid", <<>>>>,
    <<590, "mapped", <<591>>>>, <<591, "valid", <<>>>>, <<688, "mapped", <<104>>>>,
    <<689, "mapped", <<614>>>>, <<690, "mapped", <<106>>>>, <<691, "mapped", <<114>>>>,
    <<692, "mapped", <<633>>>>, <<693, "mapped", <<635>>>>, <<694, "mapped", <<641>>>>,
    <<695, "mapped", <<119>>>>, <<696, "mapped", <<121>>>>, <<697, "valid", <<>>>>,
    <<728, "mapped", <<32, 774>>>>, <<729, "mapped", <<32, 775>>>>,
    <<730, "mapped", <<32, 778>>>>, <<731, "mapped", <<32, 808>>>>,
    <<732, "mapped", <<32, 771>>>>, <<733, "mapped", <<32, 779>>>>, <<734, "valid", <<>>>>,
    <<736, "mapped", <<611>>>>, <<737, "mapped", <<108>>>>, <<738, "mapped", <<115>>>>,
    <<739, "mapped", <<120>>>>, <<740, "mapped", <<661>>>>, <<741, "valid", <<>>>>,
    <<832, "mapped", <<768>>>>, <<833, "mapped", <<769>>>>, <<834, "valid", <<>>>>,
    <<835, "mapped", <<787>>>>, <<836, "mapped", <<776, 769>>>>, <<837, "mapped", <<953>>>>,
    <<838, "valid", <<>>>>, <<847, "ignored", <<>>>>, <<848, "valid", <<>>>>,
    <<880, "mapped", <<881>>>>, <<881, "valid", <<>>>>, <<882, "mapped", <<883>>>>,
    <<883, "valid", <<>>>>, <<884, "mapped", <<697>>>>, <<885, "valid", <<>>>>,
    <<886, "mapped", <<887>>>>, <<887, "valid", <<>>>>, <<888, "disallowed", <<>>>>,
    <<890, "mapped", <<32, 953>>>>, <<891, "valid", <<>>>>, <<894, "mapped", <<59>>>>,
    <<895, "mapped", <<1011>>>>, <<896, "disallowed", <<>>>>, <<900, "mapped", <<32, 769>>>>,
    <<901, "mapped", <<32, 776, 769>>>>, <<902, "mapped", <<940>>>>, <<903, "mapped", <<183>>>>,
    <<904, "mapped", <<941>>>>, <<905, "mapped", <<942>>>>, <<906, "mapped", <<943>>>>,
    <<907, "disallowed", <<>>>>, <<908, "mapped", <<972>>>>, <<909, "disallowed", <<>>>>,
    <<910, "mapped", <<973>>>>, <<911, "mapped", <<974>>>>, <<912, "valid", <<>>>>,
    <<913, "mapped", <<945>>>>, <<914, "mapped", <<946>>>>, <<915, "mapped", <<947>>>>,
    <<916, "mapped", <<948>>>>, <<917, "mapped", <<949>>>>, <<918, "mapped", <<950>>>>,
    <<919, "mapped", <<951>>>>, <<920, "mapped", <<952>>>>, <<921, "mapped", <<953>>>>,
    <<922, "mapped", <<954>>>>, <<923, "mapped", <<955>>>>, <<924, "mapped", <<956>>>>,
    <<925, "mapped", <<957>>>>, <<926, "mapped", <<958>>>>, <<927, "mapped", <<959>>>>,
    <<928, "mapped", <<960>>>>, <<929, "mapped", <<961>>>>, <<930, "disallowed", <<>>>>,
    <<931, "mapped", <<963>>>>, <<932, "mapped", <<964>>>>, <<933, "mapped", <<965>>>>,
    <<934, "mapped", <<966>>>>, <<935, "mapped", <<967>>>>, <<936, "mapped", <<968>>>>,
    <<937, "mapped", <<969>>>>, <<938, "mapped", <<970>>>>, <<939, "mapped", <<971>>>>,
    <<940, "valid", <<>>>>, <<975, "mapped", <<983>>>>, <<976, "mapped", <<946>>>>,
    <<977, "mapped", <<952>>>>, <<978, "mapped", <<965>>>>, <<979, "mapped", <<973>>>>,
    <<980, "mapped", <<971>>>>, <<981, "mapped", <<966>>>>, <<982, "mapped", <<960>>>>,
    <<983, "valid", <<>>>>, <<984, "mapped", <<985>>>>, <<985, "valid", <<>>>>,
    <<986, "mapped", <<987>>>>, <<987, "valid", <<>>>>, <<988, "mapped", <<989>>>>,
    <<989, "valid", <<>>>>, <<990, "mapped", <<991>>>>, <<991, "valid", <<>>>>,
    <<992, "mapped", <<993>>>>, <<993, "valid", <<>>>>, <<994, "mapped", <<995>>>>,
    <<995, "valid", <<>>>>, <<996, "mapped", <<997>>>>, <<997, "valid", <<>>>>,
    <<998, "mapped", <<999>>>>, <<999, "valid", <<>>>>, <<1000, "mapped", <<1001>>>>,
    <<1001, "valid", <<>>>>, <<1002, "mapped", <<1003>>>>, <<1003, "valid", <<>>>>,
    <<1004, "mapped", <<1005>>>>, <<1005, "valid", <<>>>>, <<1006, "mapped", <<1007>>>>,
    <<1007, "valid", <<>>>>, <<1008, "mapped", <<954>>>>, <<1009, "mapped", <<961>>>>,
    <<1010, "mapped", <<963>>>>, <<1011, "valid", <<>>>>, <<1012, "mapped", <<952>>>>,
    <<1013, "mapped", <<949>>>>, <<1014, "valid", <<>>>>, <<1015, "mapped", <<1016>>>>,
    <<1016, "valid", <<>>>>, <<1017, "mapped", <<963>>>>, <<1018, "mapped", <<1019>>>>,
    <<1019, "valid", <<>>>>, <<1021, "mapped", <<891>>>>, <<1022, "mapped", <<892>>>>,
    <<1023, "mapped", <<893>>>>, <<1024, "mapped", <<1104>>>>, <<1025, "mapped", <<1105>>>>,
    <<1026, "mapped", <<1106>>>>, <<1027, "mapped", <<1107>>>>, <<1028, "mapped", <<1108>>>>,
    <<1029, "mapped", <<1109>>>>, <<1030, "mapped", <<1110>>>>, <<1031, "mapped", <<1111>>>>,
    <<1032, "mapped", <<1112>>>>, <<1033, "mapped", <<1113>>>>, <<1034, "mapped", <<1114>>>>,
    <<1035, "mapped", <<1115>>>>, <<1036, "mapped", <<1116>>>>, <<1037, "mapped", <<1117>>>>,
    <<1038, "mapped", <<1118>>>>, <<1039, "mapped", <<1119>>>>, <<1040, "mapped", <<1072>>>>,
    <<1041, "mapped", <<1073>>>>, <<1042, "mapped", <<1074>>>>, <<1043, "mapped", <<1075>>>>,
    <<1044, "mapped", <<1076>>>>, <<1045, "mapped", <<1077>>>>, <<1046, "mapped", <<1078>>>>,
    <<1047, "mapped", <<1079>>>>, <<1048, "mapped", <<1080>>>>, <<1049, "mapped", <<1081>>>>,
    <<1050, "mapped", <<1082>>>>, <<1051, "mapped", <<1083>>>>, <<1052, "mapped", <<1084>>>>,
    <<1053, "mapped", <<1085>>>>, <<1054, "mapped", <<1086>>>>, <<1055, "mapped", <<1087>>>>,
    <<1056, "mapped", <<1088>>>>, <<1057, "mapped", <<1089>>>>, <<1058, "mapped", <<1090>>>>,
    <<1059, "mapped", <<1091>>>>, <<1060, "mapped", <<1092>>>>, <<1061, "mapped", <<1093>>>>,
    <<1062, "mapped", <<1094>>>>, <<1063, "mapped", <<1095>>>>, <<1064, "mapped", <<1096>>>>,
    <<1065, "mapped", <<1097>>>>, <<1066, "mapped", <<1098>>>>, <<1067, "mapped", <<1099>>>>,
    <<1068, "mapped", <<1100>>>>, <<1069, "mapped", <<1101>>>>, <<1070, "mapped", <<1102>>>>,
    <<1071, "mapped", <<1103>>>>, <<1072, "valid", <<>>>>, <<1120, "mapped", <<1121>>>>,
    <<1121, "valid", <<>>>>, <<1122, "mapped", <<1123>>>>, <<1123, "valid", <<>>>>,
    <<1124, "mapped", <<1125>>>>, <<1125, "valid", <<>>>>, <<1126, "mapped", <<1127>>>>,
    <<1127, "valid", <<>>>>, <<1128, "mapped", <<1129>>>>, <<1129, "valid", <<>>>>,
    <<1130, "mapped", <<1131>>>>, <<1131, "valid", <<>>>>, <<1132, "mapped", <<1133>>>>,
    <<1133, "valid", <<>>>>, <<1134, "mapped", <<1135>>>>, <<1135, "valid", <<>>>>,
    <<1136, "mapped", <<1137>>>>, <<1137, "valid", <<>>>>, <<1138, "mapped", <<1139>>>>,
    <<1139, "valid", <<>>>>, <<1140, "mapped", <<1141>>>>, <<1141, "valid", <<>>>>,
    <<1142, "mapped", <<1143>>>>, <<1143, "valid", <<>>>>, <<1144, "mapped", <<1145>>>>,
    <<1145, "valid", <<>>>>, <<1146, "mapped", <<1147>>>>, <<1147, "valid", <<>>>>,
    <<1148, "mapped", <<1149>>>>, <<1149, "valid", <<>>>>, <<1150, "mapped", <<1151>>>>,
    <<1151, "valid", <<>>>>, <<1152, "mapped", <<1153>>>>, <<1153, "valid", <<>>>>,
    <<1162, "mapped", <<1163>>>>, <<1163, "valid", <<>>>>, <<1164, "mapped", <<1165>>>>,
    <<1165, "valid", <<>>>>, <<1166, "mapped", <<1167>>>>, <<1167, "valid", <<>>>>,
    <<1168, "mapped", <<1169>>>>, <<1169, "valid", <<>>>>, <<1170, "mapped", <<1171>>>>,
    <<1171, "valid", <<>>>>, <<1172, "mapped", <<1173>>>>, <<1173, "valid", <<>>>>,
    <<1174, "mapped", <<1175>>>>, <<1175, "valid", <<>>>>, <<1176, "mapped", <<1177>>>>,
    <<1177, "valid", <<>>>>, <<1178, "mapped", <<1179>>>>, <<1179, "valid", <<>>>>,
    <<1180, "mapped", <<1181>>>>, <<1181, "valid", <<>>>>, <<1182, "mapped", <<1183>>>>,
    <<1183, "valid", <<>>>>, <<1184, "mapped", <<1185>>>>, <<1185, "valid", <<>>>>,
    <<1186, "mapped", <<1187>>>>, <<1187, "valid", <<>>>>, <<1188, "mapped", <<1189>>>>,
    <<1189, "valid", <<>>>>, <<1190, "mapped", <<1191>>>>, <<1191, "valid", <<>>>>,
    <<1192, "mapped", <<1193>>>>, <<1193, "valid", <<>>>>, <<1194, "mapped", <<1195>>>>,
    <<1195, "valid", <<>>>>, <<1196, "mapped", <<1197>>>>, <<1197, "valid", <<>>>>,
    <<1198, "mapped", <<1199>>>>, <<1199, "valid", <<>>>>, <<1200, "mapped", <<1201>>>>,
    <<1201, "valid", <<>>>>, <<1202, "mapped", <<1203>>>>, <<1203, "valid", <<>>>>,
    <<1204, "mapped", <<1205>>>>, <<1205, "valid", <<>>>>, <<1206, "mapped", <<1207>>>>,
    <<1207, "valid", <<>>>>, <<1208, "mapped", <<1209>>>>, <<1209, "valid", <<>>>>,
    <<1210, "mapped", <<1211>>>>, <<1211, "valid", <<>>>>, <<1212, "mapped", <<1213>>>>,
    <<1213, "valid", <<>>>>, <<1214, "mapped", <<1215>>>>, <<1215, "valid", <<>>>>,
    <<1216, "disallowed", <<>>>>, <<1217, "mapped", <<1218>>>>, <<1218, "valid", <<>>>>,
    <<1219, "mapped", <<1220>>>>, <<1220, "valid", <<>>>>, <<1221, "mapped", <<1222>>>>,
    <<1222, "valid", <<>>>>, <<1223, "mapped", <<1224>>>>, <<1224, "valid", <<>>>>,
    <<1225, "mapped", <<1226>>>>, <<1226, "valid", <<>>>>, <<1227, "mapped", <<1228>>>>,
    <<1228, "valid", <<>>>>, <<1229, "mapped", <<1230>>>>, <<1230, "valid", <<>>>>,
    <<1232, "mapped", <<1233>>>>, <<1233, "valid", <<>>>>, <<1234, "mapped", <<1235>>>>,
    <<1235, "valid", <<>>>>, <<1236, "mapped", <<1237>>>>, <<1237, "valid", <<>>>>,
    <<1238, "mapped", <<1239>>>>, <<1239, "valid", <<>>>>, <<1240, "mapped", <<1241>>>>,
    <<1241, "valid", <<>>>>, <<1242, "mapped", <<1243>>>>, <<1243, "valid", <<>>>>,
    <<1244, "mapped", <<1245>>>>, <<1245, "valid", <<>>>>, <<1246, "mapped", <<1247>>>>,
    <<1247, "valid", <<>>>>, <<1248, "mapped", <<1249>>>>, <<1249, "valid", <<>>>>,
    <<1250, "mapped", <<1251>>>>, <<1251, "valid", <<>>>>, <<1252, "mapped", <<1253>>>>,
    <<1253, "valid", <<>>>>, <<1254, "mapped", <<1255>>>>, <<1255, "valid", <<>>>>,
    <<1256, "mapped", <<1257>>>>, <<1257, "valid", <<>>>>, <<1258, "mapped", <<1259>>>>,
    <<1259, "valid", <<>>>>, <<1260, "mapped", <<1261>>>>, <<1261, "valid", <<>>>>,
    <<1262, "mapped", <<1263>>>>, <<1263, "valid", <<>>>>, <<1264, "mapped", <<1265>>>>,
    <<1265, "valid", <<>>>>, <<1266, "mapped", <<1267>>>>, <<1267, "valid", <<>>>>,
    <<1268, "mapped", <<1269>>>>, <<1269, "valid", <<>>>>, <<1270, "mapped", <<1271>>>>,
    <<1271, "valid", <<>>>>, <<1272, "mapped", <<1273>>>>, <<1273, "valid", <<>>>>,
    <<1274, "mapped", <<1275>>>>, <<1275, "valid", <<>>>>, <<1276, "mapped", <<1277>>>>,
    <<1277, "valid", <<>>>>, <<1278, "mapped", <<1279>>>>, <<1279, "valid", <<>>>>,
    <<1280, "mapped", <<1281>>>>, <<1281, "valid", <<>>>>, <<1282, "mapped", <<1283>>>>,
    <<1283, "valid", <<>>>>, <<1284, "mapped", <<1285>>>>, <<1285, "valid", <<>>>>,
    <<1286, "mapped", <<1287>>>>, <<1287, "valid", <<>>>>, <<1288, "mapped", <<1289>>>>,
    <<1289, "valid", <<>>>>, <<1290, "mapped", <<1291>>>>, <<1291, "valid", <<>>>>,
    <<1292, "mapped", <<1293>>>>, <<1293, "valid", <<>>>>, <<1294, "mapped", <<1295>>>>,
    <<1295, "valid", <<>>>>, <<1296, "mapped", <<1297>>>>, <<1297, "valid", <<>>>>,
    <<1298, "mapped", <<1299>>>>, <<1299, "valid", <<>>>>, <<1300, "mapped", <<1301>>>>,
    <<1301, "valid", <<>>>>, <<1302, "mapped", <<1303>>>>, <<1303, "valid", <<>>>>,
    <<1304, "mapped", <<1305>>>>, <<1305, "valid", <<>>>>, <<1306, "mapped", <<1307>>>>,
    <<1307, "valid", <<>>>>, <<1308, "mapped", <<1309>>>>, <<1309, "valid", <<>>>>,
    <<1310, "mapped", <<1311>>>>, <<1311, "valid", <<>>>>, <<1312, "mapped", <<1313>>>>,
    <<1313, "valid", <<>>>>, <<1314, "mapped", <<1315>>>>, <<1315, "valid", <<>>>>,
    <<1316, "mapped", <<1317>>>>, <<1317, "valid", <<>>>>, <<1318, "mapped", <<1319>>>>,
    <<1319, "valid", <<>>>>, <<1320, "mapped", <<1321>>>>, <<1321, "valid", <<>>>>,
    <<1322, "mapped", <<1323>>>>, <<1323, "valid", <<>>>>, <<1324, "mapped", <<1325>>>>,
    <<1325, "valid", <<>>>>, <<1326, "mapped", <<1327>>>>, <<1327, "valid", <<>>>>,
    <<1328, "disallowed", <<>>>>, <<1329, "mapped", <<1377>>>>, <<1330, "mapped", <<1378>>>>,
    <<1331, "mapped", <<1379>>>>, <<1332, "mapped", <<1380>>>>, <<1333, "mapped", <<1381>>>>,
    <<1334, "mapped", <<1382>>>>, <<1335, "mapped", <<1383>>>>, <<1336, "mapped", <<1384>>>>,
    <<1337, "mapped", <<1385>>>>, <<1338, "mapped", <<1386>>>>, <<1339, "mapped", <<1387>>>>,
    <<1340, "mapped", <<1388>>>>, <<1341, "mapped", <<1389>>>>, <<1342, "mapped", <<1390>>>>,
    <<1343, "mapped", <<1391>>>>, <<1344, "mapped", <<1392>>>>, <<1345, "mapped", <<1393>>>>,
    <<1346, "mapped", <<1394>>>>, <<1347, "mapped", <<1395>>>>, <<1348, "mapped", <<1396>>>>,
    <<1349, "mapped", <<1397>>>>, <<1350, "mapped", <<1398>>>>, <<1351, "mapped", <<1399>>>>,
    <<1352, "mapped", <<1400>>>>, <<1353, "mapped", <<1401>>>>, <<1354, "mapped", <<1402>>>>,
    <<1355, "mapped", <<1403>>>>, <<1356, "mapped", <<1404>>>>, <<1357, "mapped", <<1405>>>>,
    <<1358, "mapped", <<1406>>>>, <<1359, "mapped", <<1407>>>>, <<1360, "mapped", <<1408>>>>,
    <<1361, "mapped", <<1409>>>>, <<1362, "mapped", <<1410>>>>, <<1363, "mapped", <<1411>>>>,
    <<1364, "mapped", <<1412>>>>, <<1365, "mapped", <<1413>>>>, <<1366, "mapped", <<1414>>>>,
    <<1367, "disallowed", <<>>>>, <<1369, "valid", <<>>>>, <<1415, "mapped", <<1381, 1410>>>>,
    <<1416, "valid", <<>>>>, <<1419, "disallowed", <<>>>>, <<1421, "valid", <<>>>>,
    <<1424, "disallowed", <<>>>>, <<1425, "valid", <<>>>>, <<1480, "disallowed", <<>>>>,
    <<1488, "valid", <<>>>>, <<1515, "disallowed", <<>>>>, <<1519, "valid", <<>>>>,
    <<1525, "disallowed", <<>>>>, <<1542, "valid", <<>>>>, <<1564, "disallowed", <<>>>>,
    <<1565, "valid", <<>>>>, <<1653, "mapped", <<1575, 1652>>>>,
    <<1654, "mapped", <<1608, 1652>>>>, <<1655, "mapped", <<1735, 1652>>>>,
    <<1656, "mapped", <<1610, 1652>>>>, <<1657, "valid", <<>>>>, <<1757, "disallowed", <<>>>>,
    <<1758, "valid", <<>>>>, <<1806, "disallowed", <<>>>>, <<1808, "valid", <<>>>>,
    <<1867, "disallowed", <<>>>>, <<1869, "valid", <<>>>>, <<1970, "disallowed", <<>>>>,
    <<1984, "valid", <<>>>>, <<2043, "disallowed", <<>>>>, <<2045, "valid", <<>>>>,
    <<2094, "disallowed", <<>>>>, <<2096, "valid", <<>>>>, <<2111, "disallowed", <<>>>>,
    <<2112, "valid", <<>>>>, <<2140, "disallowed", <<>>>>, <<2142, "valid", <<>>>>,
    <<2143, "disallowed", <<>>>>, <<2144, "valid", <<>>>>, <<2155, "disallowed", <<>>>>,
    <<2160, "valid", <<>>>>, <<2191, "disallowed", <<>>>>, <<2200, "valid", <<>>>>,
    <<2274, "disallowed", <<>>>>, <<2275, "valid", <<>>>>, <<2392, "mapped", <<2325, 2364>>>>,
    <<2393, "mapped", <<2326, 2364>>>>, <<2394, "mapped", <<2327, 2364>>>>,
    <<2395, "mapped", <<2332, 2364>>>>, <<2396, "mapped", <<2337, 2364>>>>,
    <<2397, "mapped", <<2338, 2364>>>>, <<2398, "mapped", <<2347, 2364>>>>,
    <<2399, "mapped", <<2351, 2364>>>>, <<2400, "valid", <<>>>>, <<2436, "disallowed", <<>>>>,
    <<2437, "valid", <<>>>>, <<2445, "disallowed", <<>>>>, <<2447, "valid", <<>>>>,
    <<2449, "disallowed", <<>>>>, <<2451, "valid", <<>>>>, <<2473, "disallowed", <<>>>>,
    <<2474, "valid", <<>>>>, <<2481, "disallowed", <<>>>>, <<2482, "valid", <<>>>>,
    <<2483, "disallowed", <<>>>>, <<2486, "valid", <<>>>>, <<2490, "disallowed", <<>>>>,
    <<2492, "valid", <<>>>>, <<2501, "disallowed", <<>>>>, <<2503, "valid", <<>>>>,
    <<2505, "disallowed", <<>>>>, <<2507, "valid", <<>>>>, <<2511, "disallowed", <<>>>>,
    <<2519, "valid", <<>>>>, <<2520, "disallowed", <<>>>>, <<2524, "mapped", <<2465, 2492>>>>,
    <<2525, "mapped", <<2466, 2492>>>>, <<2526, "disallowed", <<>>>>,
    <<2527, "mapped", <<2479, 2492>>>>, <<2528, "valid", <<>>>>, <<2532, "disallowed", <<>>>>,
    <<2534, "valid", <<>>>>, <<2559, "disallowed", <<>>>>, <<2561, "valid", <<>>>>,
    <<2564, "disallowed", <<>>>>, <<2565, "valid", <<>>>>, <<2571, "disallowed", <<>>>>,
    <<2575, "valid", <<>>>>, <<2577, "disallowed", <<>>>>, <<2579, "valid", <<>>>>,
    <<2601, "disallowed", <<>>>>, <<2602, "valid", <<>>>>, <<2609, "disallowed", <<>>>>,
    <<2610, "valid", <<>>>>, <<2611, "mapped", <<2610, 2620>>>>, <<2612, "disallowed", <<>>>>,
    <<2613, "valid", <<>>>>, <<2614, "mapped", <<2616, 2620>>>>, <<2615, "disallowed", <<>>>>,
    <<2616, "valid", <<>>>>, <<2618, "disallowed", <<>>>>, <<2620, "valid", <<>>>>,
    <<2621, "disallowed", <<>>>>, <<2622, "valid", <<>>>>, <<2627, "disallowed", <<>>>>,
    <<2631, "valid", <<>>>>, <<2633, "disallowed", <<>>>>, <<2635, "valid", <<>>>>,
    <<2638, "disallowed", <<>>>>, <<2641, "valid", <<>>>>, <<2642, "disallowed", <<>>>>,
    <<2649, "mapped", <<2582, 2620>>>>, <<2650, "mapped", <<2583, 2620>>>>,
    <<2651, "mapped", <<2588, 2620>>>>, <<2652, "valid", <<>>>>, <<2653, "disallowed", <<>>>>,
    <<2654, "mapped", <<2603, 2620>>>>, <<2655, "disallowed", <<>>>>, <<2662, "valid", <<>>>>,
    <<2679, "disallowed", <<>>>>, <<2689, "valid", <<>>>>, <<2692, "disallowed", <<>>>>,
    <<2693, "valid", <<>>>>, <<2702, "disallowed", <<>>>>, <<2703, "valid", <<>>>>,
    <<2706, "disallowed", <<>>>>, <<2707, "valid", <<>>>>, <<2729, "disallowed", <<>>>>,
    <<2730, "valid", <<>>>>, <<2737, "disallowed", <<>>>>, <<2738, "valid", <<>>>>,
    <<2740, "disallowed", <<>>>>, <<2741, "valid", <<>>>>, <<2746, "disallowed", <<>>>>,
    <<2748, "valid", <<>>>>, <<2758, "disallowed", <<>>>>, <<2759, "valid", <<>>>>,
    <<2762, "disallowed", <<>>>>, <<2763, "valid", <<>>>>, <<2766, "disallowed", <<>>>>,
    <<2768, "valid", <<>>>>, <<2769, "disallowed", <<>>>>, <<2784, "valid", <<>>>>,
    <<2788, "disallowed", <<>>>>, <<2790, "valid", <<>>>>, <<2802, "disallowed", <<>>>>,
    <<2809, "valid", <<>>>>, <<2816, "disallowed", <<>>>>, <<2817, "valid", <<>>>>,
    <<2820, "disallowed", <<>>>>, <<2821, "valid", <<>>>>, <<2829, "disallowed", <<>>>>,
    <<2831, "valid", <<>>>>, <<2833, "disallowed", <<>>>>, <<2835, "valid", <<>>>>,
    <<2857, "disallowed", <<>>>>, <<2858, "valid", <<>>>>, <<2865, "disallowed", <<>>>>,
    <<2866, "valid", <<>>>>, <<2868, "disallowed", <<>>>>, <<2869, "valid", <<>>>>,
    <<2874, "disallowed", <<>>>>, <<2876, "valid", <<>>>>, <<2885, "disallowed", <<>>>>,
    <<2887, "valid", <<>>>>, <<2889, "disallowed", <<>>>>, <<2891, "valid", <<>>>>,
    <<2894, "disallowed", <<>>>>, <<2901, "valid", <<>>>>, <<2904, "disallowed", <<>>>>,
    <<2908, "mapped", <<2849, 2876>>>>, <<2909, "mapped", <<2850, 2876>>>>,
    <<2910, "disallowed", <<>>>>, <<2911, "valid", <<>>>>, <<2916, "disallowed", <<>>>>,
    <<2918, "valid", <<>>>>, <<2936, "disallowed", <<>>>>, <<2946, "valid", <<>>>>,
    <<2948, "disallowed", <<>>>>, <<2949, "valid", <<>>>>, <<2955, "disallowed", <<>>>>,
    <<2958, "valid", <<>>>>, <<2961, "disallowed", <<>>>>, <<2962, "valid", <<>>>>,
    <<2966, "disallowed", <<>>>>, <<2969, "valid", <<>>>>, <<2971, "disallowed", <<>>>>,
    <<2972, "valid", <<>>>>, <<2973, "disallowed", <<>>>>, <<2974, "valid", <<>>>>,
    <<2976, "disallowed", <<>>>>, <<2979, "valid", <<>>>>, <<2981, "disallowed", <<>>>>,
    <<2984, "valid", <<>>>>, <<2987, "disallowed", <<>>>>, <<2990, "valid", <<>>>>,
    <<3002, "disallowed", <<>>>>, <<3006, "valid", <<>>>>, <<3011, "disallowed", <<>>>>,
    <<3014, "valid", <<>>>>, <<3017, "disallowed", <<>>>>, <<3018, "valid", <<>>>>,
    <<3022, "disallowed", <<>>>>, <<3024, "valid", <<>>>>, <<3025, "disallowed", <<>>>>,
    <<3031, "valid", <<>>>>, <<3032, "disallowed", <<>>>>, <<3046, "valid", <<>>>>,
    <<3067, "disallowed", <<>>>>, <<3072, "valid", <<>>>>, <<3085, "disallowed", <<>>>>,
    <<3086, "valid", <<>>>>, <<3089, "disallowed", <<>>>>, <<3090, "valid", <<>>>>,
    <<3113, "disallowed", <<>>>>, <<3114, "valid", <<>>>>, <<3130, "disallowed", <<>>>>,
    <<3132, "valid", <<>>>>, <<3141, "disallowed", <<>>>>, <<3142, "valid", <<>>>>,
    <<3145, "disallowed", <<>>>>, <<3146, "valid", <<>>>>, <<3150, "disallowed", <<>>>>,
    <<3157, "valid", <<>>>>, <<3159, "disallowed", <<>>>>, <<3160, "valid", <<>>>>,
    <<3163, "disallowed", <<>>>>, <<3165, "valid", <<>>>>, <<3166, "disallowed", <<>>>>,
    <<3168, "valid", <<>>>>, <<3172, "disallowed", <<>>>>, <<3174, "valid", <<>>>>,
    <<3184, "disallowed", <<>>>>, <<3191, "valid", <<>>>>, <<3213, "disallowed", <<>>>>,
    <<3214, "valid", <<>>>>, <<3217, "disallowed", <<>>>>, <<3218, "valid", <<>>>>,
    <<3241, "disallowed", <<>>>>, <<3242, "valid", <<>>>>, <<3252, "disallowed", <<>>>>,
    <<3253, "valid", <<>>>>, <<3258, "disallowed", <<>>>>, <<3260, "valid", <<>>>>,
    <<3269, "disallowed", <<>>>>, <<3270, "valid", <<>>>>, <<3273, "disallowed", <<>>>>,
    <<3274, "valid", <<>>>>, <<3278, "disallowed", <<>>>>, <<3285, "valid", <<>>>>,
    <<3287, "disallowed", <<>>>>, <<3293, "valid", <<>>>>, <<3295, "disallowed", <<>>>>,
    <<3296, "valid", <<>>>>, <<3300, "disallowed", <<>>>>, <<3302, "valid", <<>>>>,
    <<3312, "disallowed", <<>>>>, <<3313, "valid", <<>>>>, <<3316, "disallowed", <<>>>>,
    <<3328, "valid", <<>>>>, <<3341, "disallowed", <<>>>>, <<3342, "valid", <<>>>>,
    <<3345, "disallowed", <<>>>>, <<3346, "valid", <<>>>>, <<3397, "disallowed", <<>>>>,
    <<3398, "valid", <<>>>>, <<3401, "disallowed", <<>>>>, <<3402, "valid", <<>>>>,
    <<3408, "disallowed", <<>>>>, <<3412, "valid", <<>>>>, <<3428, "disallowed", <<>>>>,
    <<3430, "valid", <<>>>>, <<3456, "disallowed", <<>>>>, <<3457, "valid", <<>>>>,
    <<3460, "disallowed", <<>>>>, <<3461, "valid", <<>>>>, <<3479, "disallowed", <<>>>>,
    <<3482, "valid", <<>>>>, <<3506, "disallowed", <<>>>>, <<3507, "valid", <<>>>>,
    <<3516, "disallowed", <<>>>>, <<3517, "valid", <<>>>>, <<3518, "disallowed", <<>>>>,
    <<3520, "valid", <<>>>>, <<3527, "disallowed", <<>>>>, <<3530, "valid", <<>>>>,
    <<3531, "disallowed", <<>>>>, <<3535, "valid", <<>>>>, <<3541, "disallowed", <<>>>>,
    <<3542, "valid", <<>>>>, <<3543, "disallowed", <<>>>>, <<3544, "valid", <<>>>>,
    <<3552, "disallowed", <<>>>>, <<3558, "valid", <<>>>>, <<3568, "disallowed", <<>>>>,
    <<3570, "valid", <<>>>>, <<3573, "disallowed", <<>>>>, <<3585, "valid", <<>>>>,
    <<3635, "mapped", <<3661, 3634>>>>, <<3636, "valid", <<>>>>, <<3643, "disallowed", <<>>>>,
    <<3647, "valid", <<>>>>, <<3676, "disallowed", <<>>>>, <<3713, "valid", <<>>>>,
    <<3715, "disallowed", <<>>>>, <<3716, "valid", <<>>>>, <<3717, "disallowed", <<>>>>,
    <<3718, "valid", <<>>>>, <<3723, "disallowed", <<>>>>, <<3724, "valid", <<>>>>,
    <<3748, "disallowed", <<>>>>, <<3749, "valid", <<>>>>, <<3750, "disallowed", <<>>>>,
    <<3751, "valid", <<>>>>, <<3763, "mapped", <<3789, 3762>>>>, <<3764, "valid", <<>>>>,
    <<3774, "disallowed", <<>>>>, <<3776, "valid", <<>>>>, <<3781, "disallowed", <<>>>>,
    <<3782, "valid", <<>>>>, <<3783, "disallowed", <<>>>>, <<3784, "valid", <<>>>>,
    <<3791, "disallowed", <<>>>>, <<3792, "valid", <<>>>>, <<3802, "disallowed", <<>>>>,
    <<3804, "mapped", <<3755, 3737>>>>, <<3805, "mapped", <<3755, 3745>>>>,
    <<3806, "valid", <<>>>>, <<3808, "disallowed", <<>>>>, <<3840, "valid", <<>>>>,
    <<3852, "mapped", <<3851>>>>, <<3853, "valid", <<>>>>, <<3907, "mapped", <<3906, 4023>>>>,
    <<3908, "valid", <<>>>>, <<3912, "disallowed", <<>>>>, <<3913, "valid", <<>>>>,
    <<3917, "mapped", <<3916, 4023>>>>, <<3918, "valid", <<>>>>,
    <<3922, "mapped", <<3921, 4023>>>>, <<3923, "valid", <<>>>>,
    <<3927, "mapped", <<3926, 4023>>>>, <<3928, "valid", <<>>>>,
    <<3932, "mapped", <<3931, 4023>>>>, <<3933, "valid", <<>>>>,
    <<3945, "mapped", <<3904, 4021>>>>, <<3946, "valid", <<>>>>, <<3949, "disallowed", <<>>>>,
    <<3953, "valid", <<>>>>, <<3955, "mapped", <<3953, 3954>>>>, <<3956, "valid", <<>>>>,
    <<3957, "mapped", <<3953, 3956>>>>, <<3958, "mapped", <<4018, 3968>>>>,
    <<3959, "mapped", <<4018, 3953, 3968>>>>, <<3960, "mapped", <<4019, 3968>>>>,
    <<3961, "mapped", <<4019, 3953, 3968>>>>, <<3962, "valid", <<>>>>,
    <<3969, "mapped", <<3953, 3968>>>>, <<3970, "valid", <<>>>>,
    <<3987, "mapped", <<3986, 4023>>>>, <<3988, "valid", <<>>>>, <<3992, "disallowed", <<>>>>,
    <<3993, "valid", <<>>>>, <<3997, "mapped", <<3996, 4023>>>>, <<3998, "valid", <<>>>>,
    <<4002, "mapped", <<4001, 4023>>>>, <<4003, "valid", <<>>>>,
    <<4007, "mapped", <<4006, 4023>>>>, <<4008, "valid", <<>>>>,
    <<4012, "mapped", <<4011, 4023>>>>, <<4013, "valid", <<>>>>,
    <<4025, "mapped", <<3984, 4021>>>>, <<4026, "valid", <<>>>>, <<4029, "disallowed", <<>>>>,
    <<4030, "valid", <<>>>>, <<4045, "disallowed", <<>>>>, <<4046, "valid", <<>>>>,
    <<4059, "disallowed", <<>>>>, <<4096, "valid", <<>>>>, <<4256, "disallowed", <<>>>>,
    <<4295, "mapped", <<11559>>>>, <<4296, "disallowed", <<>>>>, <<4301, "mapped", <<11565>>>>,
    <<4302, "disallowed", <<>>>>, <<4304, "valid", <<>>>>, <<4348, "mapped", <<4316>>>>,
    <<4349, "valid", <<>>>>, <<4447, "disallowed", <<>>>>, <<4449, "valid", <<>>>>,
    <<4681, "disallowed", <<>>>>, <<4682, "valid", <<>>>>, <<4686, "disallowed", <<>>>>,
    <<4688, "valid", <<>>>>, <<4695, "disallowed", <<>>>>, <<4696, "valid", <<>>>>,
    <<4697, "disallowed", <<>>>>, <<4698, "valid", <<>>>>, <<4702, "disallowed", <<>>>>,
    <<4704, "valid", <<>>>>, <<4745, "disallowed", <<>>>>, <<4746, "valid", <<>>>>,
    <<4750, "disallowed", <<>>>>, <<4752, "valid", <<>>>>, <<4785, "disallowed", <<>>>>,
    <<4786, "valid", <<>>>>, <<4790, "disallowed", <<>>>>, <<4792, "valid", <<>>>>,
    <<4799, "disallowed", <<>>>>, <<4800, "valid", <<>>>>, <<4801, "disallowed", <<>>>>,
    <<4802, "valid", <<>>>>, <<4806, "disallowed", <<>>>>, <<4808, "valid", <<>>>>,
    <<4823, "disallowed", <<>>>>, <<4824, "valid", <<>>>>, <<4881, "disallowed", <<>>>>,
    <<4882, "valid", <<>>>>, <<4886, "disallowed", <<>>>>, <<4888, "valid", <<>>>>,
    <<4955, "disallowed", <<>>>>, <<4957, "valid", <<>>>>, <<4989, "disallowed", <<>>>>,
    <<4992, "valid", <<>>>>, <<5018, "disallowed", <<>>>>, <<5024, "valid", <<>>>>,
    <<5110, "disallowed", <<>>>>, <<5112, "mapped", <<5104>>>>, <<5113, "mapped", <<5105>>>>,
    <<5114, "mapped", <<5106>>>>, <<5115, "mapped", <<5107>>>>, <<5116, "mapped", <<5108>>>>,
    <<5117, "mapped", <<5109>>>>, <<5118, "disallowed", <<>>>>, <<5120, "valid", <<>>>>,
    <<5760, "disallowed", <<>>>>, <<5761, "valid", <<>>>>, <<5789, "disallowed", <<>>>>,
    <<5792, "valid", <<>>>>, <<5881, "disallowed", <<>>>>, <<5888, "valid", <<>>>>,
    <<5910, "disallowed", <<>>>>, <<5919, "valid", <<>>>>, <<5943, "disallowed", <<>>>>,
    <<5952, "valid", <<>>>>, <<5972, "disallowed", <<>>>>, <<5984, "valid", <<>>>>,
    <<5997, "disallowed", <<>>>>, <<5998, "valid", <<>>>>, <<6001, "disallowed", <<>>>>,
    <<6002, "valid", <<>>>>, <<6004, "disallowed", <<>>>>, <<6016, "valid", <<>>>>,
    <<6068, "disallowed", <<>>>>, <<6070, "valid", <<>>>>, <<6110, "disallowed", <<>>>>,
    <<6112, "valid", <<>>>>, <<6122, "disallowed", <<>>>>, <<6128, "valid", <<>>>>,
    <<6138, "disallowed", <<>>>>, <<6144, "valid", <<>>>>, <<6150, "disallowed", <<>>>>,
    <<6151, "valid", <<>>>>, <<6155, "ignored", <<>>>>, <<6158, "disallowed", <<>>>>,
    <<6159, "ignored", <<>>>>, <<6160, "valid", <<>>>>, <<6170, "disallowed", <<>>>>,
    <<6176, "valid", <<>>>>, <<6265, "disallowed", <<>>>>, <<6272, "valid", <<>>>>,
    <<6315, "disallowed", <<>>>>, <<6320, "valid", <<>>>>, <<6390, "disallowed", <<>>>>,
    <<6400, "valid", <<>>>>, <<6431, "disallowed", <<>>>>, <<6432, "valid", <<>>>>,
    <<6444, "disallowed", <<>>>>, <<6448, "valid", <<>>>>, <<6460, "disallowed", <<>>>>,
    <<6464, "valid", <<>>>>, <<6465, "disallowed", <<>>>>, <<6468, "valid", <<>>>>,
    <<6510, "disallowed", <<>>>>, <<6512, "valid", <<>>>>, <<6517, "disallowed", <<>>>>,
    <<6528, "valid", <<>>>>, <<6572, "disallowed", <<>>>>, <<6576, "valid", <<>>>>,
    <<6602, "disallowed", <<>>>>, <<6608, "valid", <<>>>>, <<6619, "disallowed", <<>>>>,
    <<6622, "valid", <<>>>>, <<6684, "disallowed", <<>>>>, <<6686, "valid", <<>>>>,
    <<6751, "disallowed", <<>>>>, <<6752, "valid", <<>>>>, <<6781, "disallowed", <<>>>>,
    <<6783, "valid", <<>>>>, <<6794, "disallowed", <<>>>>, <<6800, "valid", <<>>>>,
    <<6810, "disallowed", <<>>>>, <<6816, "valid", <<>>>>, <<6830, "disallowed", <<>>>>,
    <<6832, "valid", <<>>>>, <<6863, "disallowed", <<>>>>, <<6912, "valid", <<>>>>,
    <<6989, "disallowed", <<>>>>, <<6992, "valid", <<>>>>, <<7039, "disallowed", <<>>>>,
    <<7040, "valid", <<>>>>, <<7156, "disallowed", <<>>>>, <<7164, "valid", <<>>>>,
    <<7224, "disallowed", <<>>>>, <<7227, "valid", <<>>>>, <<7242, "disallowed", <<>>>>,
    <<7245, "valid", <<>>>>, <<7296, "mapped", <<1074>>>>, <<7297, "mapped", <<1076>>>>,
    <<7298, "mapped", <<1086>>>>, <<7299, "mapped", <<1089>>>>, <<7300, "mapped", <<1090>>>>,
    <<7302, "mapped", <<1098>>>>, <<7303, "mapped", <<1123>>>>, <<7304, "mapped", <<42571>>>>,
    <<7305, "disallowed", <<>>>>, <<7312, "mapped", <<4304>>>>, <<7313, "mapped", <<4305>>>>,
    <<7314, "mapped", <<4306>>>>, <<7315, "mapped", <<4307>>>>, <<7316, "mapped", <<4308>>>>,
    <<7317, "mapped", <<4309>>>>, <<7318, "mapped", <<4310>>>>, <<7319, "mapped", <<4311>>>>,
    <<7320, "mapped", <<4312>>>>, <<7321, "mapped", <<4313>>>>, <<7322, "mapped", <<4314>>>>,
    <<7323, "mapped", <<4315>>>>, <<7324, "mapped", <<4316>>>>, <<7325, "mapped", <<4317>>>>,
    <<7326, "mapped", <<4318>>>>, <<7327, "mapped", <<4319>>>>, <<7328, "mapped", <<4320>>>>,
    <<7329, "mapped", <<4321>>>>, <<7330, "mapped", <<4322>>>>, <<7331, "mapped", <<4323>>>>,
    <<7332, "mapped", <<4324>>>>, <<7333, "mapped", <<4325>>>>, <<7334, "mapped", <<4326>>>>,
    <<7335, "mapped", <<4327>>>>, <<7336, "mapped", <<4328>>>>, <<7337, "mapped", <<4329>>>>,
    <<7338, "mapped", <<4330>>>>, <<7339, "mapped", <<4331>>>>, <<7340, "mapped", <<4332>>>>,
    <<7341, "mapped", <<4333>>>>, <<7342, "mapped", <<4334>>>>, <<7343, "mapped", <<4335>>>>,
    <<7344, "mapped", <<4336>>>>, <<7345, "mapped", <<4337>>>>, <<7346, "mapped", <<4338>>>>,
    <<7347, "mapped", <<4339>>>>, <<7348, "mapped", <<4340>>>>, <<7349, "mapped", <<4341>>>>,
    <<7350, "mapped", <<4342>>>>, <<7351, "mapped", <<4343>>>>, <<7352, "mapped", <<4344>>>>,
    <<7353, "mapped", <<4345>>>>, <<7354, "mapped", <<4346>>>>, <<7355, "disallowed", <<>>>>,
    <<7357, "mapped", <<4349>>>>, <<7358, "mapped", <<4350>>>>, <<7359, "mapped", <<4351>>>>,
    <<7360, "valid", <<>>>>, <<7368, "disallowed", <<>>>>, <<7376, "valid", <<>>>>,
    <<7419, "disallowed", <<>>>>, <<7424, "valid", <<>>>>, <<7468, "mapped", <<97>>>>,
    <<7469, "mapped", <<230>>>>, <<7470, "mapped", <<98>>>>, <<7471, "valid", <<>>>>,
    <<7472, "mapped", <<100>>>>, <<7473, "mapped", <<101>>>>, <<7474, "mapped", <<477>>>>,
    <<7475, "mapped", <<103>>>>, <<7476, "mapped", <<104>>>>, <<7477, "mapped", <<105>>>>,
    <<7478, "mapped", <<106>>>>, <<7479, "mapped", <<107>>>>, <<7480, "mapped", <<108>>>>,
    <<7481, "mapped", <<109>>>>, <<7482, "mapped", <<110>>>>, <<7483, "valid", <<>>>>,
    <<7484, "mapped", <<111>>>>, <<7485, "mapped", <<547>>>>, <<7486, "mapped", <<112>>>>,
    <<7487, "mapped", <<114>>>>, <<7488, "mapped", <<116>>>>, <<7489, "mapped", <<117>>>>,
    <<7490, "mapped", <<119>>>>, <<7491, "mapped", <<97>>>>, <<7492, "mapped", <<592>>>>,
    <<7493, "mapped", <<593>>>>, <<7494, "mapped", <<7426>>>>, <<7495, "mapped", <<98>>>>,
    <<7496, "mapped", <<100>>>>, <<7497, "mapped", <<101>>>>, <<7498, "mapped", <<601>>>>,
    <<7499, "mapped", <<603>>>>, <<7500, "mapped", <<604>>>>, <<7501, "mapped", <<103>>>>,
    <<7502, "valid", <<>>>>, <<7503, "mapped", <<107>>>>, <<7504, "mapped", <<109>>>>,
    <<7505, "mapped", <<331>>>>, <<7506, "mapped", <<111>>>>, <<7507, "mapped", <<596>>>>,
    <<7508, "mapped", <<7446>>>>, <<7509, "mapped", <<7447>>>>, <<7510, "mapped", <<112>>>>,
    <<7511, "mapped", <<116>>>>, <<7512, "mapped", <<117>>>>, <<7513, "mapped", <<7453>>>>,
    <<7514, "mapped", <<623>>>>, <<7515, "mapped", <<118>>>>, <<7516, "mapped", <<7461>>>>,
    <<7517, "mapped", <<946>>>>, <<7518, "mapped", <<947>>>>, <<7519, "mapped", <<948>>>>,
    <<7520, "mapped", <<966>>>>, <<7521, "mapped", <<967>>>>, <<7522, "mapped", <<105>>>>,
    <<7523, "mapped", <<114>>>>, <<7524, "mapped", <<117>>>>, <<7525, "mapped", <<118>>>>,
    <<7526, "mapped", <<946>>>>, <<7527, "mapped", <<947>>>>, <<7528, "mapped", <<961>>>>,
    <<7529, "mapped", <<966>>>>, <<7530, "mapped", <<967>>>>, <<7531, "valid", <<>>>>,
    <<7544, "mapped", <<1085>>>>, <<7545, "valid", <<>>>>, <<7579, "mapped", <<594>>>>,
    <<7580, "mapped", <<99>>>>, <<7581, "mapped", <<597>>>>, <<7582, "mapped", <<240>>>>,
    <<7583, "mapped", <<604>>>>, <<7584, "mapped", <<102>>>>, <<7585, "mapped", <<607>>>>,
    <<7586, "mapped", <<609>>>>, <<7587, "mapped", <<613>>>>, <<7588, "mapped", <<616>>>>,
    <<7589, "mapped", <<617>>>>, <<7590, "mapped", <<618>>>>, <<7591, "mapped", <<7547>>>>,
    <<7592, "mapped", <<669>>>>, <<7593, "mapped", <<621>>>>, <<7594, "mapped", <<7557>>>>,
    <<7595, "mapped", <<671>>>>, <<7596, "mapped", <<625>>>>, <<7597, "mapped", <<624>>>>,
    <<7598, "mapped", <<626>>>>, <<7599, "mapped", <<627>>>>, <<7600, "mapped", <<628>>>>,
    <<7601, "mapped", <<629>>>>, <<7602, "mapped", <<632>>>>, <<7603, "mapped", <<642>>>>,
    <<7604, "mapped", <<643>>>>, <<7605, "mapped", <<427>>>>, <<7606, "mapped", <<649>>>>,
    <<7607, "mapped", <<650>>>>, <<7608, "mapped", <<7452>>>>, <<7609, "mapped", <<651>>>>,
    <<7610, "mapped", <<652>>>>, <<7611, "mapped", <<122>>>>, <<7612, "mapped", <<656>>>>,
    <<7613, "mapped", <<657>>>>, <<7614, "mapped", <<658>>>>, <<7615, "mapped", <<952>>>>,
    <<7616, "valid", <<>>>>, <<7680, "mapped", <<7681>>>>, <<7681, "valid", <<>>>>,
    <<7682, "mapped", <<7683>>>>, <<7683, "valid", <<>>>>, <<7684, "mapped", <<7685>>>>,
    <<7685, "valid", <<>>>>, <<7686, "mapped", <<7687>>>>, <<7687, "valid", <<>>>>,
    <<7688, "mapped", <<7689>>>>, <<7689, "valid", <<>>>>, <<7690, "mapped", <<7691>>>>,
    <<7691, "valid", <<>>>>, <<7692, "mapped", <<7693>>>>, <<7693, "valid", <<>>>>,
    <<7694, "mapped", <<7695>>>>, <<7695, "valid", <<>>>>, <<7696, "mapped", <<7697>>>>,
    <<7697, "valid", <<>>>>, <<7698, "mapped", <<7699>>>>, <<7699, "valid", <<>>>>,
    <<7700, "mapped", <<7701>>>>, <<7701, "valid", <<>>>>, <<7702, "mapped", <<7703>>>>,
    <<7703, "valid", <<>>>>, <<7704, "mapped", <<7705>>>>, <<7705, "valid", <<>>>>,
    <<7706, "mapped", <<7707>>>>, <<7707, "valid", <<>>>>, <<7708, "mapped", <<7709>>>>,
    <<7709, "valid", <<>>>>, <<7710, "mapped", <<7711>>>>, <<7711, "valid", <<>>>>,
    <<7712, "mapped", <<7713>>>>, <<7713, "valid", <<>>>>, <<7714, "mapped", <<7715>>>>,
    <<7715, "valid", <<>>>>, <<7716, "mapped", <<7717>>>>, <<7717, "valid", <<>>>>,
    <<7718, "mapped", <<7719>>>>, <<7719, "valid", <<>>>>, <<7720, "mapped", <<7721>>>>,
    <<7721, "valid", <<>>>>, <<7722, "mapped", <<7723>>>>, <<7723, "valid", <<>>>>,
    <<7724, "mapped", <<7725>>>>, <<7725, "valid", <<>>>>, <<7726, "mapped", <<7727>>>>,
    <<7727, "valid", <<>>>>, <<7728, "mapped", <<7729>>>>, <<7729, "valid", <<>>>>,
    <<7730, "mapped", <<7731>>>>, <<7731, "valid", <<>>>>, <<7732, "mapped", <<7733>>>>,
    <<7733, "valid", <<>>>>, <<7734, "mapped", <<7735>>>>, <<7735, "valid", <<>>>>,
    <<7736, "mapped", <<7737>>>>, <<7737, "valid", <<>>>>, <<7738, "mapped", <<7739>>>>,
    <<7739, "valid", <<>>>>, <<7740, "mapped", <<7741>>>>, <<7741, "valid", <<>>>>,
    <<7742, "mapped", <<7743>>>>, <<7743, "valid", <<>>>>, <<7744, "mapped", <<7745>>>>,
    <<7745, "valid", <<>>>>, <<7746, "mapped", <<7747>>>>, <<7747, "valid", <<>>>>,
    <<7748, "mapped", <<7749>>>>, <<7749, "valid", <<>>>>, <<7750, "mapped", <<7751>>>>,
    <<7751, "valid", <<>>>>, <<7752, "mapped", <<7753>>>>, <<7753, "valid", <<>>>>,
    <<7754, "mapped", <<7755>>>>, <<7755, "valid", <<>>>>, <<7756, "mapped", <<7757>>>>,
    <<7757, "valid", <<>>>>, <<7758, "mapped", <<7759>>>>, <<7759, "valid", <<>>>>,
    <<7760, "mapped", <<7761>>>>, <<7761, "valid", <<>>>>, <<7762, "mapped", <<7763>>>>,
    <<7763, "valid", <<>>>>, <<7764, "mapped", <<7765>>>>, <<7765, "valid", <<>>>>,
    <<7766, "mapped", <<7767>>>>, <<7767, "valid", <<>>>>, <<7768, "mapped", <<7769>>>>,
    <<7769, "valid", <<>>>>, <<7770, "mapped", <<7771>>>>, <<7771, "valid", <<>>>>,
    <<7772, "mapped", <<7773>>>>, <<7773, "valid", <<>>>>, <<7774, "mapped", <<7775>>>>,
    <<7775, "valid", <<>>>>, <<7776, "mapped", <<7777>>>>, <<7777, "valid", <<>>>>,
    <<7778, "mapped", <<7779>>>>, <<7779, "valid", <<>>>>, <<7780, "mapped", <<7781>>>>,
    <<7781, "valid", <<>>>>, <<7782, "mapped", <<7783>>>>, <<7783, "valid", <<>>>>,
    <<7784, "mapped", <<7785>>>>, <<7785, "valid", <<>>>>, <<7786, "mapped", <<7787>>>>,
    <<7787, "valid", <<>>>>, <<7788, "mapped", <<7789>>>>, <<7789, "valid", <<>>>>,
    <<7790, "mapped", <<7791>>>>, <<7791, "valid", <<>>>>, <<7792, "mapped", <<7793>>>>,
    <<7793, "valid", <<>>>>, <<7794, "mapped", <<7795>>>>, <<7795, "valid", <<>>>>,
    <<7796, "mapped", <<7797>>>>, <<7797, "valid", <<>>>>, <<7798, "mapped", <<7799>>>>,
    <<7799, "valid", <<>>>>, <<7800, "mapped", <<7801>>>>, <<7801, "valid", <<>>>>,
    <<7802, "mapped", <<7803>>>>, <<7803, "valid", <<>>>>, <<7804, "mapped", <<7805>>>>,
    <<7805, "valid", <<>>>>, <<7806, "mapped", <<7807>>>>, <<7807, "valid", <<>>>>,
    <<7808, "mapped", <<7809>>>>, <<7809, "valid", <<>>>>, <<7810, "mapped", <<7811>>>>,
    <<7811, "valid", <<>>>>, <<7812, "mapped", <<7813>>>>, <<7813, "valid", <<>>>>,
    <<7814, "mapped", <<7815>>>>, <<7815, "valid", <<>>>>, <<7816, "mapped", <<7817>>>>,
    <<7817, "valid", <<>>>>, <<7818, "mapped", <<7819>>>>, <<7819, "valid", <<>>>>,
    <<7820, "mapped", <<7821>>>>, <<7821, "valid", <<>>>>, <<7822, "mapped", <<7823>>>>,
    <<7823, "valid", <<>>>>, <<7824, "mapped", <<7825>>>>, <<7825, "valid", <<>>>>,
    <<7826, "mapped", <<7827>>>>, <<7827, "valid", <<>>>>, <<7828, "mapped", <<7829>>>>,
    <<7829, "valid", <<>>>>, <<7834, "mapped", <<97, 702>>>>, <<7835, "mapped", <<7777>>>>,
    <<7836, "valid", <<>>>>, <<7838, "mapped", <<115, 115>>>>, <<7839, "valid", <<>>>>,
    <<7840, "mapped", <<7841>>>>, <<7841, "valid", <<>>>>, <<7842, "mapped", <<7843>>>>,
    <<7843, "valid", <<>>>>, <<7844, "mapped", <<7845>>>>, <<7845, "valid", <<>>>>,
    <<7846, "mapped", <<7847>>>>, <<7847, "valid", <<>>>>, <<7848, "mapped", <<7849>>>>,
    <<7849, "valid", <<>>>>, <<7850, "mapped", <<7851>>>>, <<7851, "valid", <<>>>>,
    <<7852, "mapped", <<7853>>>>, <<7853, "valid", <<>>>>, <<7854, "mapped", <<7855>>>>,
    <<7855, "valid", <<>>>>, <<7856, "mapped", <<7857>>>>, <<7857, "valid", <<>>>>,
    <<7858, "mapped", <<7859>>>>, <<7859, "valid", <<>>>>, <<7860, "mapped", <<7861>>>>,
    <<7861, "valid", <<>>>>, <<7862, "mapped", <<7863>>>>, <<7863, "valid", <<>>>>,
    <<7864, "mapped", <<7865>>>>, <<7865, "valid", <<>>>>, <<7866, "mapped", <<7867>>>>,
    <<7867, "valid", <<>>>>, <<7868, "mapped", <<7869>>>>, <<7869, "valid", <<>>>>,
    <<7870, "mapped", <<7871>>>>, <<7871, "valid", <<>>>>, <<7872, "mapped", <<7873>>>>,
    <<7873, "valid", <<>>>>, <<7874, "mapped", <<7875>>>>, <<7875, "valid", <<>>>>,
    <<7876, "mapped", <<7877>>>>, <<7877, "valid", <<>>>>, <<7878, "mapped", <<7879>>>>,
    <<7879, "valid", <<>>>>, <<7880, "mapped", <<7881>>>>, <<7881, "valid", <<>>>>,
    <<7882, "mapped", <<7883>>>>, <<7883, "valid", <<>>>>, <<7884, "mapped", <<7885>>>>,
    <<7885, "valid", <<>>>>, <<7886, "mapped", <<7887>>>>, <<7887, "valid", <<>>>>,
    <<7888, "mapped", <<7889>>>>, <<7889, "valid", <<>>>>, <<7890, "mapped", <<7891>>>>,
    <<7891, "valid", <<>>>>, <<7892, "mapped", <<7893>>>>, <<7893, "valid", <<>>>>,
    <<7894, "mapped", <<7895>>>>, <<7895, "valid", <<>>>>, <<7896, "mapped", <<7897>>>>,
    <<7897, "valid", <<>>>>, <<7898, "mapped", <<7899>>>>, <<7899, "valid", <<>>>>,
    <<7900, "mapped", <<7901>>>>, <<7901, "valid", <<>>>>, <<7902, "mapped", <<7903>>>>,
    <<7903, "valid", <<>>>>, <<7904, "mapped", <<7905>>>>, <<7905, "valid", <<>>>>,
    <<7906, "mapped", <<7907>>>>, <<7907, "valid", <<>>>>, <<7908, "mapped", <<7909>>>>,
    <<7909, "valid", <<>>>>, <<7910, "mapped", <<7911>>>>, <<7911, "valid", <<>>>>,
    <<7912, "mapped", <<7913>>>>, <<7913, "valid", <<>>>>, <<7914, "mapped", <<7915>>>>,
    <<7915, "valid", <<>>>>, <<7916, "mapped", <<7917>>>>, <<7917, "valid", <<>>>>,
    <<7918, "mapped", <<7919>>>>, <<7919, "valid", <<>>>>, <<7920, "mapped", <<7921>>>>,
    <<7921, "valid", <<>>>>, <<7922, "mapped", <<7923>>>>, <<7923, "valid", <<>>>>,
    <<7924, "mapped", <<7925>>>>, <<7925, "valid", <<>>>>, <<7926, "mapped", <<7927>>>>,
    <<7927, "valid", <<>>>>, <<7928, "mapped", <<7929>>>>, <<7929, "valid", <<>>>>,
    <<7930, "mapped", <<7931>>>>, <<7931, "valid", <<>>>>, <<7932, "mapped", <<7933>>>>,
    <<7933, "valid", <<>>>>, <<7934, "mapped", <<7935>>>>, <<7935, "valid", <<>>>>,
    <<7944, "mapped", <<7936>>>>, <<7945, "mapped", <<7937>>>>, <<7946, "mapped", <<7938>>>>,
    <<7947, "mapped", <<7939>>>>, <<7948, "mapped", <<7940>>>>, <<7949, "mapped", <<7941>>>>,
    <<7950, "mapped", <<7942>>>>, <<7951, "mapped", <<7943>>>>, <<7952, "valid", <<>>>>,
    <<7958, "disallowed", <<>>>>, <<7960, "mapped", <<7952>>>>, <<7961, "mapped", <<7953>>>>,
    <<7962, "mapped", <<7954>>>>, <<7963, "mapped", <<7955>>>>, <<7964, "mapped", <<7956>>>>,
    <<7965, "mapped", <<7957>>>>, <<7966, "disallowed", <<>>>>, <<7968, "valid", <<>>>>,
    <<7976, "mapped", <<7968>>>>, <<7977, "mapped", <<7969>>>>, <<7978, "mapped", <<7970>>>>,
    <<7979, "mapped", <<7971>>>>, <<7980, "mapped", <<7972>>>>, <<7981, "mapped", <<7973>>>>,
    <<7982, "mapped", <<7974>>>>, <<7983, "mapped", <<7975>>>>, <<7984, "valid", <<>>>>,
    <<7992, "mapped", <<7984>>>>, <<7993, "mapped", <<7985>>>>, <<7994, "mapped", <<7986>>>>,
    <<7995, "mapped", <<7987>>>>, <<7996, "mapped", <<7988>>>>, <<7997, "mapped", <<7989>>>>,
    <<7998, "mapped", <<7990>>>>, <<7999, "mapped", <<7991>>>>, <<8000, "valid", <<>>>>,
    <<8006, "disallowed", <<>>>>, <<8008, "mapped", <<8000>>>>, <<8009, "mapped", <<8001>>>>,
    <<8010, "mapped", <<8002>>>>, <<8011, "mapped", <<8003>>>>, <<8012, "mapped", <<8004>>>>,
    <<8013, "mapped", <<8005>>>>, <<8014, "disallowed", <<>>>>, <<8016, "valid", <<>>>>,
    <<8024, "disallowed", <<>>>>, <<8025, "mapped", <<8017>>>>, <<8026, "disallowed", <<>>>>,
    <<8027, "mapped", <<8019>>>>, <<8028, "disallowed", <<>>>>, <<8029, "mapped", <<8021>>>>,
    <<8030, "disallowed", <<>>>>, <<8031, "mapped", <<8023>>>>, <<8032, "valid", <<>>>>,
    <<8040, "mapped", <<8032>>>>, <<8041, "mapped", <<8033>>>>, <<8042, "mapped", <<8034>>>>,
    <<8043, "mapped", <<8035>>>>, <<8044, "mapped", <<8036>>>>, <<8045, "mapped", <<8037>>>>,
    <<8046, "mapped", <<8038>>>>, <<8047, "mapped", <<8039>>>>, <<8048, "valid", <<>>>>,
    <<8049, "mapped", <<940>>>>, <<8050, "valid", <<>>>>, <<8051, "mapped", <<941>>>>,
    <<8052, "valid", <<>>>>, <<8053, "mapped", <<942>>>>, <<8054, "valid", <<>>>>,
    <<8055, "mapped", <<943>>>>, <<8056, "valid", <<>>>>, <<8057, "mapped", <<972>>>>,
    <<8058, "valid", <<>>>>, <<8059, "mapped", <<973>>>>, <<8060, "valid", <<>>>>,
    <<8061, "mapped", <<974>>>>, <<8062, "disallowed", <<>>>>, <<8064, "mapped", <<7936, 953>>>>,
    <<8065, "mapped", <<7937, 953>>>>, <<8066, "mapped", <<7938, 953>>>>,
    <<8067, "mapped", <<7939, 953>>>>, <<8068, "mapped", <<7940, 953>>>>,
    <<8069, "mapped", <<7941, 953>>>>, <<8070, "mapped", <<7942, 953>>>>,
    <<8071, "mapped", <<7943, 953>>>>, <<8072, "mapped", <<7936, 953>>>>,
    <<8073, "mapped", <<7937, 953>>>>, <<8074, "mapped", <<7938, 953>>>>,
    <<8075, "mapped", <<7939, 953>>>>, <<8076, "mapped", <<7940, 953>>>>,
    <<8077, "mapped", <<7941, 953>>>>, <<8078, "mapped", <<7942, 953>>>>,
    <<8079, "mapped", <<7943, 953>>>>, <<8080, "mapped", <<7968, 953>>>>,
    <<8081, "mapped", <<7969, 953>>>>, <<8082, "mapped", <<7970, 953>>>>,
    <<8083, "mapped", <<7971, 953>>>>, <<8084, "mapped", <<7972, 953>>>>,
    <<8085, "mapped", <<7973, 953>>>>, <<8086, "mapped", <<7974, 953>>>>,
    <<8087, "mapped", <<7975, 953>>>>, <<8088, "mapped", <<7968, 953>>>>,
    <<8089, "mapped", <<7969, 953>>>>, <<8090, "mapped", <<7970, 953>>>>,
    <<8091, "mapped", <<7971, 953>>>>, <<8092, "mapped", <<7972, 953>>>>,
    <<8093, "mapped", <<7973, 953>>>>, <<8094, "mapped", <<7974, 953>>>>,
    <<8095, "mapped", <<7975, 953>>>>, <<8096, "mapped", <<8032, 953>>>>,
    <<8097, "mapped", <<8033, 953>>>>, <<8098, "mapped", <<8034, 953>>>>,
    <<8099, "mapped", <<8035, 953>>>>, <<8100, "mapped", <<8036, 953>>>>,
    <<8101, "mapped", <<8037, 953>>>>, <<8102, "mapped", <<8038, 953>>>>,
    <<8103, "mapped", <<8039, 953>>>>, <<8104, "mapped", <<8032, 953>>>>,
    <<8105, "mapped", <<8033, 953>>>>, <<8106, "mapped", <<8034, 953>>>>,
    <<8107, "mapped", <<8035, 953>>>>, <<8108, "mapped", <<8036, 953>>>>,
    <<8109, "mapped", <<8037, 953>>>>, <<8110, "mapped", <<8038, 953>>>>,
    <<8111, "mapped", <<8039, 953>>>>, <<8112, "valid", <<>>>>, <<8114, "mapped", <<8048, 953>>>>,
    <<8115, "mapped", <<945, 953>>>>, <<8116, "mapped", <<940, 953>>>>,
    <<8117, "disallowed", <<>>>>, <<8118, "valid", <<>>>>, <<8119, "mapped", <<8118, 953>>>>,
    <<8120, "mapped", <<8112>>>>, <<8121, "mapped", <<8113>>>>, <<8122, "mapped", <<8048>>>>,
    <<8123, "mapped", <<940>>>>, <<8124, "mapped", <<945, 953>>>>,
    <<8125, "mapped", <<32, 787>>>>, <<8126, "mapped", <<953>>>>, <<8127, "mapped", <<32, 787>>>>,
    <<8128, "mapped", <<32, 834>>>>, <<8129, "mapped", <<32, 776, 834>>>>,
    <<8130, "mapped", <<8052, 953>>>>, <<8131, "mapped", <<951, 953>>>>,
    <<8132, "mapped", <<942, 953>>>>, <<8133, "disallowed", <<>>>>, <<8134, "valid", <<>>>>,
    <<8135, "mapped", <<8134, 953>>>>, <<8136, "mapped", <<8050>>>>, <<8137, "mapped", <<941>>>>,
    <<8138, "mapped", <<8052>>>>, <<8139, "mapped", <<942>>>>, <<8140, "mapped", <<951, 953>>>>,
    <<8141, "mapped", <<32, 787, 768>>>>, <<8142, "mapped", <<32, 787, 769>>>>,
    <<8143, "mapped", <<32, 787, 834>>>>, <<8144, "valid", <<>>>>, <<8147, "mapped", <<912>>>>,
    <<8148, "disallowed", <<>>>>, <<8150, "valid", <<>>>>, <<8152, "mapped", <<8144>>>>,
    <<8153, "mapped", <<8145>>>>, <<8154, "mapped", <<8054>>>>, <<8155, "mapped", <<943>>>>,
    <<8156, "disallowed", <<>>>>, <<8157, "mapped", <<32, 788, 768>>>>,
    <<8158, "mapped", <<32, 788, 769>>>>, <<8159, "mapped", <<32, 788, 834>>>>,
    <<8160, "valid", <<>>>>, <<8163, "mapped", <<944>>>>, <<8164, "valid", <<>>>>,
    <<8168, "mapped", <<8160>>>>, <<8169, "mapped", <<8161>>>>, <<8170, "mapped", <<8058>>>>,
    <<8171, "mapped", <<973>>>>, <<8172, "mapped", <<8165>>>>,
    <<8173, "mapped", <<32, 776, 768>>>>, <<8174, "mapped", <<32, 776, 769>>>>,
    <<8175, "mapped", <<96>>>>, <<8176, "disallowed", <<>>>>, <<8178, "mapped", <<8060, 953>>>>,
    <<8179, "mapped", <<969, 953>>>>, <<8180, "mapped", <<974, 953>>>>,
    <<8181, "disallowed", <<>>>>, <<8182, "valid", <<>>>>, <<8183, "mapped", <<8182, 953>>>>,
    <<8184, "mapped", <<8056>>>>, <<8185, "mapped", <<972>>>>, <<8186, "mapped", <<8060>>>>,
    <<8187, "mapped", <<974>>>>, <<8188, "mapped", <<969, 953>>>>,
    <<8189, "mapped", <<32, 769>>>>, <<8190, "mapped", <<32, 788>>>>,
    <<8191, "disallowed", <<>>>>, <<8192, "mapped", <<32>>>>, <<8203, "ignored", <<>>>>,
    <<8204, "valid", <<>>>>, <<8206, "disallowed", <<>>>>, <<8208, "valid", <<>>>>,
    <<8209, "mapped", <<8208>>>>, <<8210, "valid", <<>>>>, <<8215, "mapped", <<32, 819>>>>,
    <<8216, "valid", <<>>>>, <<8228, "disallowed", <<>>>>, <<8231, "valid", <<>>>>,
    <<8232, "disallowed", <<>>>>, <<8239, "mapped", <<32>>>>, <<8240, "valid", <<>>>>,
    <<8243, "mapped", <<8242, 8242>>>>, <<8244, "mapped", <<8242, 8242, 8242>>>>,
    <<8245, "valid", <<>>>>, <<8246, "mapped", <<8245, 8245>>>>,
    <<8247, "mapped", <<8245, 8245, 8245>>>>, <<8248, "valid", <<>>>>,
    <<8252, "mapped", <<33, 33>>>>, <<8253, "valid", <<>>>>, <<8254, "mapped", <<32, 773>>>>,
    <<8255, "valid", <<>>>>, <<8263, "mapped", <<63, 63>>>>, <<8264, "mapped", <<63, 33>>>>,
    <<8265, "mapped", <<33, 63>>>>, <<8266, "valid", <<>>>>,
    <<8279, "mapped", <<8242, 8242, 8242, 8242>>>>, <<8280, "valid", <<>>>>,
    <<8287, "mapped", <<32>>>>, <<8288, "ignored", <<>>>>, <<8289, "disallowed", <<>>>>,
    <<8292, "ignored", <<>>>>, <<8293, "disallowed", <<>>>>, <<8304, "mapped", <<48>>>>,
    <<8305, "mapped", <<105>>>>, <<8306, "disallowed", <<>>>>, <<8308, "mapped", <<52>>>>,
    <<8309, "mapped", <<53>>>>, <<8310, "mapped", <<54>>>>, <<8311, "mapped", <<55>>>>,
    <<8312, "mapped", <<56>>>>, <<8313, "mapped", <<57>>>>, <<8314, "mapped", <<43>>>>,
    <<8315, "mapped", <<8722>>>>, <<8316, "mapped", <<61>>>>, <<8317, "mapped", <<40>>>>,
    <<8318, "mapped", <<41>>>>, <<8319, "mapped", <<110>>>>, <<8320, "mapped", <<48>>>>,
    <<8321, "mapped", <<49>>>>, <<8322, "mapped", <<50>>>>, <<8323, "mapped", <<51>>>>,
    <<8324, "mapped", <<52>>>>, <<8325, "mapped", <<53>>>>, <<8326, "mapped", <<54>>>>,
    <<8327, "mapped", <<55>>>>, <<8328, "mapped", <<56>>>>, <<8329, "mapped", <<57>>>>,
    <<8330, "mapped", <<43>>>>, <<8331, "mapped", <<8722>>>>, <<8332, "mapped", <<61>>>>,
    <<8333, "mapped", <<40>>>>, <<8334, "mapped", <<41>>>>, <<8335, "disallowed", <<>>>>,
    <<8336, "mapped", <<97>>>>, <<8337, "mapped", <<101>>>>, <<8338, "mapped", <<111>>>>,
    <<8339, "mapped", <<120>>>>, <<8340, "mapped", <<601>>>>, <<8341, "mapped", <<104>>>>,
    <<8342, "mapped", <<107>>>>, <<8343, "mapped", <<108>>>>, <<8344, "mapped", <<109>>>>,
    <<8345, "mapped", <<110>>>>, <<8346, "mapped", <<112>>>>, <<8347, "mapped", <<115>>>>,
    <<8348, "mapped", <<116>>>>, <<8349, "disallowed", <<>>>>, <<8352, "valid", <<>>>>,
    <<8360, "mapped", <<114, 115>>>>, <<8361, "valid", <<>>>>, <<8385, "disallowed", <<>>>>,
    <<8400, "valid", <<>>>>, <<8433, "disallowed", <<>>>>, <<8448, "mapped", <<97, 47, 99>>>>,
    <<8449, "mapped", <<97, 47, 115>>>>, <<8450, "mapped", <<99>>>>,
    <<8451, "mapped", <<176, 99>>>>, <<8452, "valid", <<>>>>, <<8453, "mapped", <<99, 47, 111>>>>,
    <<8454, "mapped", <<99, 47, 117>>>>, <<8455, "mapped", <<603>>>>, <<8456, "valid", <<>>>>,
    <<8457, "mapped", <<176, 102>>>>, <<8458, "mapped", <<103>>>>, <<8459, "mapped", <<104>>>>,
    <<8463, "mapped", <<295>>>>, <<8464, "mapped", <<105>>>>, <<8466, "mapped", <<108>>>>,
    <<8468, "valid", <<>>>>, <<8469, "mapped", <<110>>>>, <<8470, "mapped", <<110, 111>>>>,
    <<8471, "valid", <<>>>>, <<8473, "mapped", <<112>>>>, <<8474, "mapped", <<113>>>>,
    <<8475, "mapped", <<114>>>>, <<8478, "valid", <<>>>>, <<8480, "mapped", <<115, 109>>>>,
    <<8481, "mapped", <<116, 101, 108>>>>, <<8482, "mapped", <<116, 109>>>>,
    <<8483, "valid", <<>>>>, <<8484, "mapped", <<122>>>>, <<8485, "valid", <<>>>>,
    <<8486, "mapped", <<969>>>>, <<8487, "valid", <<>>>>, <<8488, "mapped", <<122>>>>,
    <<8489, "valid", <<>>>>, <<8490, "mapped", <<107>>>>, <<8491, "mapped", <<229>>>>,
    <<8492, "mapped", <<98>>>>, <<8493, "mapped", <<99>>>>, <<8494, "valid", <<>>>>,
    <<8495, "mapped", <<101>>>>, <<8497, "mapped", <<102>>>>, <<8498, "disallowed", <<>>>>,
    <<8499, "mapped", <<109>>>>, <<8500, "mapped", <<111>>>>, <<8501, "mapped", <<1488>>>>,
    <<8502, "mapped", <<1489>>>>, <<8503, "mapped", <<1490>>>>, <<8504, "mapped", <<1491>>>>,
    <<8505, "mapped", <<105>>>>, <<8506, "valid", <<>>>>, <<8507, "mapped", <<102, 97, 120>>>>,
    <<8508, "mapped", <<960>>>>, <<8509, "mapped", <<947>>>>, <<8511, "mapped", <<960>>>>,
    <<8512, "mapped", <<8721>>>>, <<8513, "valid", <<>>>>, <<8517, "mapped", <<100>>>>,
    <<8519, "mapped", <<101>>>>, <<8520, "mapped", <<105>>>>, <<8521, "mapped", <<106>>>>,
    <<8522, "valid", <<>>>>, <<8528, "mapped", <<49, 8260, 55>>>>,
    <<8529, "mapped", <<49, 8260, 57>>>>, <<8530, "mapped", <<49, 8260, 49, 48>>>>,
    <<8531, "mapped", <<49, 8260, 51>>>>, <<8532, "mapped", <<50, 8260, 51>>>>,
    <<8533, "mapped", <<49, 8260, 53>>>>, <<8534, "mapped", <<50, 8260, 53>>>>,
    <<8535, "mapped", <<51, 8260, 53>>>>, <<8536, "mapped", <<52, 8260, 53>>>>,
    <<8537, "mapped", <<49, 8260, 54>>>>, <<8538, "mapped", <<53, 8260, 54>>>>,
    <<8539, "mapped", <<49, 8260, 56>>>>, <<8540, "mapped", <<51, 8260, 56>>>>,
    <<8541, "mapped", <<53, 8260, 56>>>>, <<8542, "mapped", <<55, 8260, 56>>>>,
    <<8543, "mapped", <<49, 8260>>>>, <<8544, "mapped", <<105>>>>,
    <<8545, "mapped", <<105, 105>>>>, <<8546, "mapped", <<105, 105, 105>>>>,
    <<8547, "mapped", <<105, 118>>>>, <<8548, "mapped", <<118>>>>,
    <<8549, "mapped", <<118, 105>>>>, <<8550, "mapped", <<118, 105, 105>>>>,
    <<8551, "mapped", <<118, 105, 105, 105>>>>, <<8552, "mapped", <<105, 120>>>>,
    <<8553, "mapped", <<120>>>>, <<8554, "mapped", <<120, 105>>>>,
    <<8555, "mapped", <<120, 105, 105>>>>, <<8556, "mapped", <<108>>>>,
    <<8557, "mapped", <<99>>>>, <<8558, "mapped", <<100>>>>, <<8559, "mapped", <<109>>>>,
    <<8560, "mapped", <<105>>>>, <<8561, "mapped", <<105, 105>>>>,
    <<8562, "mapped", <<105, 105, 105>>>>, <<8563, "mapped", <<105, 118>>>>,
    <<8564, "mapped", <<118>>>>, <<8565, "mapped", <<118, 105>>>>,
    <<8566, "mapped", <<118, 105, 105>>>>, <<8567, "mapped", <<118, 105, 105, 105>>>>,
    <<8568, "mapped", <<105, 120>>>>, <<8569, "mapped", <<120>>>>,
    <<8570, "mapped", <<120, 105>>>>, <<8571, "mapped", <<120, 105, 105>>>>,
    <<8572, "mapped", <<108>>>>, <<8573, "mapped", <<99>>>>, <<8574, "mapped", <<100>>>>,
    <<8575, "mapped", <<109>>>>, <<8576, "valid", <<>>>>, <<8579, "disallowed", <<>>>>,
    <<8580, "valid", <<>>>>, <<8585, "mapped", <<48, 8260, 51>>>>, <<8586, "valid", <<>>>>,
    <<8588, "disallowed", <<>>>>, <<8592, "valid", <<>>>>, <<8748, "mapped", <<8747, 8747>>>>,
    <<8749, "mapped", <<8747, 8747, 8747>>>>, <<8750, "valid", <<>>>>,
    <<8751, "mapped", <<8750, 8750>>>>, <<8752, "mapped", <<8750, 8750, 8750>>>>,
    <<8753, "valid", <<>>>>, <<9001, "mapped", <<12296>>>>, <<9002, "mapped", <<12297>>>>,
    <<9003, "valid", <<>>>>, <<9255, "disallowed", <<>>>>, <<9280, "valid", <<>>>>,
    <<9291, "disallowed", <<>>>>, <<9312, "mapped", <<49>>>>, <<9313, "mapped", <<50>>>>,
    <<9314, "mapped", <<51>>>>, <<9315, "mapped", <<52>>>>, <<9316, "mapped", <<53>>>>,
    <<9317, "mapped", <<54>>>>, <<9318, "mapped", <<55>>>>, <<9319, "mapped", <<56>>>>,
    <<9320, "mapped", <<57>>>>, <<9321, "mapped", <<49, 48>>>>, <<9322, "mapped", <<49, 49>>>>,
    <<9323, "mapped", <<49, 50>>>>, <<9324, "mapped", <<49, 51>>>>,
    <<9325, "mapped", <<49, 52>>>>, <<9326, "mapped", <<49, 53>>>>,
    <<9327, "mapped", <<49, 54>>>>, <<9328, "mapped", <<49, 55>>>>,
    <<9329, "mapped", <<49, 56>>>>, <<9330, "mapped", <<49, 57>>>>,
    <<9331, "mapped", <<50, 48>>>>, <<9332, "mapped", <<40, 49, 41>>>>,
    <<9333, "mapped", <<40, 50, 41>>>>, <<9334, "mapped", <<40, 51, 41>>>>,
    <<9335, "mapped", <<40, 52, 41>>>>, <<9336, "mapped", <<40, 53, 41>>>>,
    <<9337, "mapped", <<40, 54, 41>>>>, <<9338, "mapped", <<40, 55, 41>>>>,
    <<9339, "mapped", <<40, 56, 41>>>>, <<9340, "mapped", <<40, 57, 41>>>>,
    <<9341, "mapped", <<40, 49, 48, 41>>>>, <<9342, "mapped", <<40, 49, 49, 41>>>>,
    <<9343, "mapped", <<40, 49, 50, 41>>>>, <<9344, "mapped", <<40, 49, 51, 41>>>>,
    <<9345, "mapped", <<40, 49, 52, 41>>>>, <<9346, "mapped", <<40, 49, 53, 41>>>>,
    <<9347, "mapped", <<40, 49, 54, 41>>>>, <<9348, "mapped", <<40, 49, 55, 41>>>>,
    <<9349, "mapped", <<40, 49, 56, 41>>>>, <<9350, "mapped", <<40, 49, 57, 41>>>>,
    <<9351, "mapped", <<40, 50, 48, 41>>>>, <<9352, "disallowed", <<>>>>,
    <<9372, "mapped", <<40, 97, 41>>>>, <<9373, "mapped", <<40, 98, 41>>>>,
    <<9374, "mapped", <<40, 99, 41>>>>, <<9375, "mapped", <<40, 100, 41>>>>,
    <<9376, "mapped", <<40, 101, 41>>>>, <<9377, "mapped", <<40, 102, 41>>>>,
    <<9378, "mapped", <<40, 103, 41>>>>, <<9379, "mapped", <<40, 104, 41>>>>,
    <<9380, "mapped", <<40, 105, 41>>>>, <<9381, "mapped", <<40, 106, 41>>>>,
    <<9382, "mapped", <<40, 107, 41>>>>, <<9383, "mapped", <<40, 108, 41>>>>,
    <<9384, "mapped", <<40, 109, 41>>>>, <<9385, "mapped", <<40, 110, 41>>>>,
    <<9386, "mapped", <<40, 111, 41>>>>, <<9387, "mapped", <<40, 112, 41>>>>,
    <<9388, "mapped", <<40, 113, 41>>>>, <<9389, "mapped", <<40, 114, 41>>>>,
    <<9390, "mapped", <<40, 115, 41>>>>, <<9391, "mapped", <<40, 116, 41>>>>,
    <<9392, "mapped", <<40, 117, 41>>>>, <<9393, "mapped", <<40, 118, 41>>>>,
    <<9394, "mapped", <<40, 119, 41>>>>, <<9395, "mapped", <<40, 120, 41>>>>,
    <<9396, "mapped", <<40, 121, 41>>>>, <<9397, "mapped", <<40, 122, 41>>>>,
    <<9398, "mapped", <<97>>>>, <<9399, "mapped", <<98>>>>, <<9400, "mapped", <<99>>>>,
    <<9401, "mapped", <<100>>>>, <<9402, "mapped", <<101>>>>, <<9403, "mapped", <<102>>>>,
    <<9404, "mapped", <<103>>>>, <<9405, "mapped", <<104>>>>, <<9406, "mapped", <<105>>>>,
    <<9407, "mapped", <<106>>>>, <<9408, "mapped", <<107>>>>, <<9409, "mapped", <<108>>>>,
    <<9410, "mapped", <<109>>>>, <<9411, "mapped", <<110>>>>, <<9412, "mapped", <<111>>>>,
    <<9413, "mapped", <<112>>>>, <<9414, "mapped", <<113>>>>, <<9415, "mapped", <<114>>>>,
    <<9416, "mapped", <<115>>>>, <<9417, "mapped", <<116>>>>, <<9418, "mapped", <<117>>>>,
    <<9419, "mapped", <<118>>>>, <<9420, "mapped", <<119>>>>, <<9421, "mapped", <<120>>>>,
    <<9422, "mapped", <<121>>>>, <<9423, "mapped", <<122>>>>, <<9424, "mapped", <<97>>>>,
    <<9425, "mapped", <<98>>>>, <<9426, "mapped", <<99>>>>, <<9427, "mapped", <<100>>>>,
    <<9428, "mapped", <<101>>>>, <<9429, "mapped", <<102>>>>, <<9430, "mapped", <<103>>>>,
    <<9431, "mapped", <<104>>>>, <<9432, "mapped", <<105>>>>, <<9433, "mapped", <<106>>>>,
    <<9434, "mapped", <<107>>>>, <<9435, "mapped", <<108>>>>, <<9436, "mapped", <<109>>>>,
    <<9437, "mapped", <<110>>>>, <<9438, "mapped", <<111>>>>, <<9439, "mapped", <<112>>>>,
    <<9440, "mapped", <<113>>>>, <<9441, "mapped", <<114>>>>, <<9442, "mapped", <<115>>>>,
    <<9443, "mapped", <<116>>>>, <<9444, "mapped", <<117>>>>, <<9445, "mapped", <<118>>>>,
    <<9446, "mapped", <<119>>>>, <<9447, "mapped", <<120>>>>, <<9448, "mapped", <<121>>>>,
    <<9449, "mapped", <<122>>>>, <<9450, "mapped", <<48>>>>, <<9451, "valid", <<>>>>,
    <<10764, "mapped", <<8747, 8747, 8747, 8747>>>>, <<10765, "valid", <<>>>>,
    <<10868, "mapped", <<58, 58, 61>>>>, <<10869, "mapped", <<61, 61>>>>,
    <<10870, "mapped", <<61, 61, 61>>>>, <<10871, "valid", <<>>>>,
    <<10972, "mapped", <<10973, 824>>>>, <<10973, "valid", <<>>>>, <<11124, "disallowed", <<>>>>,
    <<11126, "valid", <<>>>>, <<11158, "disallowed", <<>>>>, <<11159, "valid", <<>>>>,
    <<11264, "mapped", <<11312>>>>, <<11265, "mapped", <<11313>>>>,
    <<11266, "mapped", <<11314>>>>, <<11267, "mapped", <<11315>>>>,
    <<11268, "mapped", <<11316>>>>, <<11269, "mapped", <<11317>>>>,
    <<11270, "mapped", <<11318>>>>, <<11271, "mapped", <<11319>>>>,
    <<11272, "mapped", <<11320>>>>, <<11273, "mapped", <<11321>>>>,
    <<11274, "mapped", <<11322>>>>, <<11275, "mapped", <<11323>>>>,
    <<11276, "mapped", <<11324>>>>, <<11277, "mapped", <<11325>>>>,
    <<11278, "mapped", <<11326>>>>, <<11279, "mapped", <<11327>>>>,
    <<11280, "mapped", <<11328>>>>, <<11281, "mapped", <<11329>>>>,
    <<11282, "mapped", <<11330>>>>, <<11283, "mapped", <<11331>>>>,
    <<11284, "mapped", <<11332>>>>, <<11285, "mapped", <<11333>>>>,
    <<11286, "mapped", <<11334>>>>, <<11287, "mapped", <<11335>>>>,
    <<11288, "mapped", <<11336>>>>, <<11289, "mapped", <<11337>>>>,
    <<11290, "mapped", <<11338>>>>, <<11291, "mapped", <<11339>>>>,
    <<11292, "mapped", <<11340>>>>, <<11293, "mapped", <<11341>>>>,
    <<11294, "mapped", <<11342>>>>, <<11295, "mapped", <<11343>>>>,
    <<11296, "mapped", <<11344>>>>, <<11297, "mapped", <<11345>>>>,
    <<11298, "mapped", <<11346>>>>, <<11299, "mapped", <<11347>>>>,
    <<11300, "mapped", <<11348>>>>, <<11301, "mapped", <<11349>>>>,
    <<11302, "mapped", <<11350>>>>, <<11303, "mapped", <<11351>>>>,
    <<11304, "mapped", <<11352>>>>, <<11305, "mapped", <<11353>>>>,
    <<11306, "mapped", <<11354>>>>, <<11307, "mapped", <<11355>>>>,
    <<11308, "mapped", <<11356>>>>, <<11309, "mapped", <<11357>>>>,
    <<11310, "mapped", <<11358>>>>, <<11311, "mapped", <<11359>>>>, <<11312, "valid", <<>>>>,
    <<11360, "mapped", <<11361>>>>, <<11361, "valid", <<>>>>, <<11362, "mapped", <<619>>>>,
    <<11363, "mapped", <<7549>>>>, <<11364, "mapped", <<637>>>>, <<11365, "valid", <<>>>>,
    <<11367, "mapped", <<11368>>>>, <<11368, "valid", <<>>>>, <<11369, "mapped", <<11370>>>>,
    <<11370, "valid", <<>>>>, <<11371, "mapped", <<11372>>>>, <<11372, "valid", <<>>>>,
    <<11373, "mapped", <<593>>>>, <<11374, "mapped", <<625>>>>, <<11375, "mapped", <<592>>>>,
    <<11376, "mapped", <<594>>>>, <<11377, "valid", <<>>>>, <<11378, "mapped", <<11379>>>>,
    <<11379, "valid", <<>>>>, <<11381, "mapped", <<11382>>>>, <<11382, "valid", <<>>>>,
    <<11388, "mapped", <<106>>>>, <<11389, "mapped", <<118>>>>, <<11390, "mapped", <<575>>>>,
    <<11391, "mapped", <<576>>>>, <<11392, "mapped", <<11393>>>>, <<11393, "valid", <<>>>>,
    <<11394, "mapped", <<11395>>>>, <<11395, "valid", <<>>>>, <<11396, "mapped", <<11397>>>>,
    <<11397, "valid", <<>>>>, <<11398, "mapped", <<11399>>>>, <<11399, "valid", <<>>>>,
    <<11400, "mapped", <<11401>>>>, <<11401, "valid", <<>>>>, <<11402, "mapped", <<11403>>>>,
    <<11403, "valid", <<>>>>, <<11404, "mapped", <<11405>>>>, <<11405, "valid", <<>>>>,
    <<11406, "mapped", <<11407>>>>, <<11407, "valid", <<>>>>, <<11408, "mapped", <<11409>>>>,
    <<11409, "valid", <<>>>>, <<11410, "mapped", <<11411>>>>, <<11411, "valid", <<>>>>,
    <<11412, "mapped", <<11413>>>>, <<11413, "valid", <<>>>>, <<11414, "mapped", <<11415>>>>,
    <<11415, "valid", <<>>>>, <<11416, "mapped", <<11417>>>>, <<11417, "valid", <<>>>>,
    <<11418, "mapped", <<11419>>>>, <<11419, "valid", <<>>>>, <<11420, "mapped", <<11421>>>>,
    <<11421, "valid", <<>>>>, <<11422, "mapped", <<11423>>>>, <<11423, "valid", <<>>>>,
    <<11424, "mapped", <<11425>>>>, <<11425, "valid", <<>>>>, <<11426, "mapped", <<11427>>>>,
    <<11427, "valid", <<>>>>, <<11428, "mapped", <<11429>>>>, <<11429, "valid", <<>>>>,
    <<11430, "mapped", <<11431>>>>, <<11431, "valid", <<>>>>, <<11432, "mapped", <<11433>>>>,
    <<11433, "valid", <<>>>>, <<11434, "mapped", <<11435>>>>, <<11435, "valid", <<>>>>,
    <<11436, "mapped", <<11437>>>>, <<11437, "valid", <<>>>>, <<11438, "mapped", <<11439>>>>,
    <<11439, "valid", <<>>>>, <<11440, "mapped", <<11441>>>>, <<11441, "valid", <<>>>>,
    <<11442, "mapped", <<11443>>>>, <<11443, "valid", <<>>>>, <<11444, "mapped", <<11445>>>>,
    <<11445, "valid", <<>>>>, <<11446, "mapped", <<11447>>>>, <<11447, "valid", <<>>>>,
    <<11448, "mapped", <<11449>>>>, <<11449, "valid", <<>>>>, <<11450, "mapped", <<11451>>>>,
    <<11451, "valid", <<>>>>, <<11452, "mapped", <<11453>>>>, <<11453, "valid", <<>>>>,
    <<11454, "mapped", <<11455>>>>, <<11455, "valid", <<>>>>, <<11456, "mapped", <<11457>>>>,
    <<11457, "valid", <<>>>>, <<11458, "mapped", <<11459>>>>, <<11459, "valid", <<>>>>,
    <<11460, "mapped", <<11461>>>>, <<11461, "valid", <<>>>>, <<11462, "mapped", <<11463>>>>,
    <<11463, "valid", <<>>>>, <<11464, "mapped", <<11465>>>>, <<11465, "valid", <<>>>>,
    <<11466, "mapped", <<11467>>>>, <<11467, "valid", <<>>>>, <<11468, "mapped", <<11469>>>>,
    <<11469, "valid", <<>>>>, <<11470, "mapped", <<11471>>>>, <<11471, "valid", <<>>>>,
    <<11472, "mapped", <<11473>>>>, <<11473, "valid", <<>>>>, <<11474, "mapped", <<11475>>>>,
    <<11475, "valid", <<>>>>, <<11476, "mapped", <<11477>>>>, <<11477, "valid", <<>>>>,
    <<11478, "mapped", <<11479>>>>, <<11479, "valid", <<>>>>, <<11480, "mapped", <<11481>>>>,
    <<11481, "valid", <<>>>>, <<11482, "mapped", <<11483>>>>, <<11483, "valid", <<>>>>,
    <<11484, "mapped", <<11485>>>>, <<11485, "valid", <<>>>>, <<11486, "mapped", <<11487>>>>,
    <<11487, "valid", <<>>>>, <<11488, "mapped", <<11489>>>>, <<11489, "valid", <<>>>>,
    <<11490, "mapped", <<11491>>>>, <<11491, "valid", <<>>>>, <<11499, "mapped", <<11500>>>>,
    <<11500, "valid", <<>>>>, <<11501, "mapped", <<11502>>>>, <<11502, "valid", <<>>>>,
    <<11506, "mapped", <<11507>>>>, <<11507, "valid", <<>>>>, <<11508, "disallowed", <<>>>>,
    <<11513, "valid", <<>>>>, <<11558, "disallowed", <<>>>>, <<11559, "valid", <<>>>>,
    <<11560, "disallowed", <<>>>>, <<11565, "valid", <<>>>>, <<11566, "disallowed", <<>>>>,
    <<11568, "valid", <<>>>>, <<11624, "disallowed", <<>>>>, <<11631, "mapped", <<11617>>>>,
    <<11632, "valid", <<>>>>, <<11633, "disallowed", <<>>>>, <<11647, "valid", <<>>>>,
    <<11671, "disallowed", <<>>>>, <<11680, "valid", <<>>>>, <<11687, "disallowed", <<>>>>,
    <<11688, "valid", <<>>>>, <<11695, "disallowed", <<>>>>, <<11696, "valid", <<>>>>,
    <<11703, "disallowed", <<>>>>, <<11704, "valid", <<>>>>, <<11711, "disallowed", <<>>>>,
    <<11712, "valid", <<>>>>, <<11719, "disallowed", <<>>>>, <<11720, "valid", <<>>>>,
    <<11727, "disallowed", <<>>>>, <<11728, "valid", <<>>>>, <<11735, "disallowed", <<>>>>,
    <<11736, "valid", <<>>>>, <<11743, "disallowed", <<>>>>, <<11744, "valid", <<>>>>,
    <<11870, "disallowed", <<>>>>, <<11904, "valid", <<>>>>, <<11930, "disallowed", <<>>>>,
    <<11931, "valid", <<>>>>, <<11935, "mapped", <<27597>>>>, <<11936, "valid", <<>>>>,
    <<12019, "mapped", <<40863>>>>, <<12020, "disallowed", <<>>>>, <<12032, "mapped", <<19968>>>>,
    <<12033, "mapped", <<20008>>>>, <<12034, "mapped", <<20022>>>>,
    <<12035, "mapped", <<20031>>>>, <<12036, "mapped", <<20057>>>>,
    <<12037, "mapped", <<20101>>>>, <<12038, "mapped", <<20108>>>>,
    <<12039, "mapped", <<20128>>>>, <<12040, "mapped", <<20154>>>>,
    <<12041, "mapped", <<20799>>>>, <<12042, "mapped", <<20837>>>>,
    <<12043, "mapped", <<20843>>>>, <<12044, "mapped", <<20866>>>>,
    <<12045, "mapped", <<20886>>>>, <<12046, "mapped", <<20907>>>>,
    <<12047, "mapped", <<20960>>>>, <<12048, "mapped", <<20981>>>>,
    <<12049, "mapped", <<20992>>>>, <<12050, "mapped", <<21147>>>>,
    <<12051, "mapped", <<21241>>>>, <<12052, "mapped", <<21269>>>>,
    <<12053, "mapped", <<21274>>>>, <<12054, "mapped", <<21304>>>>,
    <<12055, "mapped", <<21313>>>>, <<12056, "mapped", <<21340>>>>,
    <<12057, "mapped", <<21353>>>>, <<12058, "mapped", <<21378>>>>,
    <<12059, "mapped", <<21430>>>>, <<12060, "mapped", <<21448>>>>,
    <<12061, "mapped", <<21475>>>>, <<12062, "mapped", <<22231>>>>,
    <<12063, "mapped", <<22303>>>>, <<12064, "mapped", <<22763>>>>,
    <<12065, "mapped", <<22786>>>>, <<12066, "mapped", <<22794>>>>,
    <<12067, "mapped", <<22805>>>>, <<12068, "mapped", <<22823>>>>,
    <<12069, "mapped", <<22899>>>>, <<12070, "mapped", <<23376>>>>,
    <<12071, "mapped", <<23424>>>>, <<12072, "mapped", <<23544>>>>,
    <<12073, "mapped", <<23567>>>>, <<12074, "mapped", <<23586>>>>,
    <<12075, "mapped", <<23608>>>>, <<12076, "mapped", <<23662>>>>,
    <<12077, "mapped", <<23665>>>>, <<12078, "mapped", <<24027>>>>,
    <<12079, "mapped", <<24037>>>>, <<12080, "mapped", <<24049>>>>,
    <<12081, "mapped", <<24062>>>>, <<12082, "mapped", <<24178>>>>,
    <<12083, "mapped", <<24186>>>>, <<12084, "mapped", <<24191>>>>,
    <<12085, "mapped", <<24308>>>>, <<12086, "mapped", <<24318>>>>,
    <<12087, "mapped", <<24331>>>>, <<12088, "mapped", <<24339>>>>,
    <<12089, "mapped", <<24400>>>>, <<12090, "mapped", <<24417>>>>,
    <<12091, "mapped", <<24435>>>>, <<12092, "mapped", <<24515>>>>,
    <<12093, "mapped", <<25096>>>>, <<12094, "mapped", <<25142>>>>,
    <<12095, "mapped", <<25163>>>>, <<12096, "mapped", <<25903>>>>,
    <<12097, "mapped", <<25908>>>>, <<12098, "mapped", <<25991>>>>,
    <<12099, "mapped", <<26007>>>>, <<12100, "mapped", <<26020>>>>,
    <<12101, "mapped", <<26041>>>>, <<12102, "mapped", <<26080>>>>,
    <<12103, "mapped", <<26085>>>>, <<12104, "mapped", <<26352>>>>,
    <<12105, "mapped", <<26376>>>>, <<12106, "mapped", <<26408>>>>,
    <<12107, "mapped", <<27424>>>>, <<12108, "mapped", <<27490>>>>,
    <<12109, "mapped", <<27513>>>>, <<12110, "mapped", <<27571>>>>,
    <<12111, "mapped", <<27595>>>>, <<12112, "mapped", <<27604>>>>,
    <<12113, "mapped", <<27611>>>>, <<12114, "mapped", <<27663>>>>,
    <<12115, "mapped", <<27668>>>>, <<12116, "mapped", <<27700>>>>,
    <<12117, "mapped", <<28779>>>>, <<12118, "mapped", <<29226>>>>,
    <<12119, "mapped", <<29238>>>>, <<12120, "mapped", <<29243>>>>,
    <<12121, "mapped", <<29247>>>>, <<12122, "mapped", <<29255>>>>,
    <<12123, "mapped", <<29273>>>>, <<12124, "mapped", <<29275>>>>,
    <<12125, "mapped", <<29356>>>>, <<12126, "mapped", <<29572>>>>,
    <<12127, "mapped", <<29577>>>>, <<12128, "mapped", <<29916>>>>,
    <<12129, "mapped", <<29926>>>>, <<12130, "mapped", <<29976>>>>,
    <<12131, "mapped", <<29983>>>>, <<12132, "mapped", <<29992>>>>,
    <<12133, "mapped", <<30000>>>>, <<12134, "mapped", <<30091>>>>,
    <<12135, "mapped", <<30098>>>>, <<12136, "mapped", <<30326>>>>,
    <<12137, "mapped", <<30333>>>>, <<12138, "mapped", <<30382>>>>,
    <<12139, "mapped", <<30399>>>>, <<12140, "mapped", <<30446>>>>,
    <<12141, "mapped", <<30683>>>>, <<12142, "mapped", <<30690>>>>,
    <<12143, "mapped", <<30707>>>>, <<12144, "mapped", <<31034>>>>,
    <<12145, "mapped", <<31160>>>>, <<12146, "mapped", <<31166>>>>,
    <<12147, "mapped", <<31348>>>>, <<12148, "mapped", <<31435>>>>,
    <<12149, "mapped", <<31481>>>>, <<12150, "mapped", <<31859>>>>,
    <<12151, "mapped", <<31992>>>>, <<12152, "mapped", <<32566>>>>,
    <<12153, "mapped", <<32593>>>>, <<12154, "mapped", <<32650>>>>,
    <<12155, "mapped", <<32701>>>>, <<12156, "mapped", <<32769>>>>,
    <<12157, "mapped", <<32780>>>>, <<12158, "mapped", <<32786>>>>,
    <<12159, "mapped", <<32819>>>>, <<12160, "mapped", <<32895>>>>,
    <<12161, "mapped", <<32905>>>>, <<12162, "mapped", <<33251>>>>,
    <<12163, "mapped", <<33258>>>>, <<12164, "mapped", <<33267>>>>,
    <<12165, "mapped", <<33276>>>>, <<12166, "mapped", <<33292>>>>,
    <<12167, "mapped", <<33307>>>>, <<12168, "mapped", <<33311>>>>,
    <<12169, "mapped", <<33390>>>>, <<12170, "mapped", <<33394>>>>,
    <<12171, "mapped", <<33400>>>>, <<12172, "mapped", <<34381>>>>,
    <<12173, "mapped", <<34411>>>>, <<12174, "mapped", <<34880>>>>,
    <<12175, "mapped", <<34892>>>>, <<12176, "mapped", <<34915>>>>,
    <<12177, "mapped", <<35198>>>>, <<12178, "mapped", <<35211>>>>,
    <<12179, "mapped", <<35282>>>>, <<12180, "mapped", <<35328>>>>,
    <<12181, "mapped", <<35895>>>>, <<12182, "mapped", <<35910>>>>,
    <<12183, "mapped", <<35925>>>>, <<12184, "mapped", <<35960>>>>,
    <<12185, "mapped", <<35997>>>>, <<12186, "mapped", <<36196>>>>,
    <<12187, "mapped", <<36208>>>>, <<12188, "mapped", <<36275>>>>,
    <<12189, "mapped", <<36523>>>>, <<12190, "mapped", <<36554>>>>,
    <<12191, "mapped", <<36763>>>>, <<12192, "mapped", <<36784>>>>,
    <<12193, "mapped", <<36789>>>>, <<12194, "mapped", <<37009>>>>,
    <<12195, "mapped", <<37193>>>>, <<12196, "mapped", <<37318>>>>,
    <<12197, "mapped", <<37324>>>>, <<12198, "mapped", <<37329>>>>,
    <<12199, "mapped", <<38263>>>>, <<12200, "mapped", <<38272>>>>,
    <<12201, "mapped", <<38428>>>>, <<12202, "mapped", <<38582>>>>,
    <<12203, "mapped", <<38585>>>>, <<12204, "mapped", <<38632>>>>,
    <<12205, "mapped", <<38737>>>>, <<12206, "mapped", <<38750>>>>,
    <<12207, "mapped", <<38754>>>>, <<12208, "mapped", <<38761>>>>,
    <<12209, "mapped", <<38859>>>>, <<12210, "mapped", <<38893>>>>,
    <<12211, "mapped", <<38899>>>>, <<12212, "mapped", <<38913>>>>,
    <<12213, "mapped", <<39080>>>>, <<12214, "mapped", <<39131>>>>,
    <<12215, "mapped", <<39135>>>>, <<12216, "mapped", <<39318>>>>,
    <<12217, "mapped", <<39321>>>>, <<12218, "mapped", <<39340>>>>,
    <<12219, "mapped", <<39592>>>>, <<12220, "mapped", <<39640>>>>,
    <<12221, "mapped", <<39647>>>>, <<12222, "mapped", <<39717>>>>,
    <<12223, "mapped", <<39727>>>>, <<12224, "mapped", <<39730>>>>,
    <<12225, "mapped", <<39740>>>>, <<12226, "mapped", <<39770>>>>,
    <<12227, "mapped", <<40165>>>>, <<12228, "mapped", <<40565>>>>,
    <<12229, "mapped", <<40575>>>>, <<12230, "mapped", <<40613>>>>,
    <<12231, "mapped", <<40635>>>>, <<12232, "mapped", <<40643>>>>,
    <<12233, "mapped", <<40653>>>>, <<12234, "mapped", <<40657>>>>,
    <<12235, "mapped", <<40697>>>>, <<12236, "mapped", <<40701>>>>,
    <<12237, "mapped", <<40718>>>>, <<12238, "mapped", <<40723>>>>,
    <<12239, "mapped", <<40736>>>>, <<12240, "mapped", <<40763>>>>,
    <<12241, "mapped", <<40778>>>>, <<12242, "mapped", <<40786>>>>,
    <<12243, "mapped", <<40845>>>>, <<12244, "mapped", <<40860>>>>,
    <<12245, "mapped", <<40864>>>>, <<12246, "disallowed", <<>>>>, <<12288, "mapped", <<32>>>>,
    <<12289, "valid", <<>>>>, <<12290, "mapped", <<46>>>>, <<12291, "valid", <<>>>>,
    <<12342, "mapped", <<12306>>>>, <<12343, "valid", <<>>>>, <<12344, "mapped", <<21313>>>>,
    <<12345, "mapped", <<21316>>>>, <<12346, "mapped", <<21317>>>>, <<12347, "valid", <<>>>>,
    <<12352, "disallowed", <<>>>>, <<12353, "valid", <<>>>>, <<12439, "disallowed", <<>>>>,
    <<12441, "valid", <<>>>>, <<12443, "mapped", <<32, 12441>>>>,
    <<12444, "mapped", <<32, 12442>>>>, <<12445, "valid", <<>>>>,
    <<12447, "mapped", <<12424, 12426>>>>, <<12448, "valid", <<>>>>,
    <<12543, "mapped", <<12467, 12488>>>>, <<12544, "disallowed", <<>>>>,
    <<12549, "valid", <<>>>>, <<12592, "disallowed", <<>>>>, <<12593, "mapped", <<4352>>>>,
    <<12594, "mapped", <<4353>>>>, <<12595, "mapped", <<4522>>>>, <<12596, "mapped", <<4354>>>>,
    <<12597, "mapped", <<4524>>>>, <<12598, "mapped", <<4525>>>>, <<12599, "mapped", <<4355>>>>,
    <<12600, "mapped", <<4356>>>>, <<12601, "mapped", <<4357>>>>, <<12602, "mapped", <<4528>>>>,
    <<12603, "mapped", <<4529>>>>, <<12604, "mapped", <<4530>>>>, <<12605, "mapped", <<4531>>>>,
    <<12606, "mapped", <<4532>>>>, <<12607, "mapped", <<4533>>>>, <<12608, "mapped", <<4378>>>>,
    <<12609, "mapped", <<4358>>>>, <<12610, "mapped", <<4359>>>>, <<12611, "mapped", <<4360>>>>,
    <<12612, "mapped", <<4385>>>>, <<12613, "mapped", <<4361>>>>, <<12614, "mapped", <<4362>>>>,
    <<12615, "mapped", <<4363>>>>, <<12616, "mapped", <<4364>>>>, <<12617, "mapped", <<4365>>>>,
    <<12618, "mapped", <<4366>>>>, <<12619, "mapped", <<4367>>>>, <<12620, "mapped", <<4368>>>>,
    <<12621, "mapped", <<4369>>>>, <<12622, "mapped", <<4370>>>>, <<12623, "mapped", <<4449>>>>,
    <<12624, "mapped", <<4450>>>>, <<12625, "mapped", <<4451>>>>, <<12626, "mapped", <<4452>>>>,
    <<12627, "mapped", <<4453>>>>, <<12628, "mapped", <<4454>>>>, <<12629, "mapped", <<4455>>>>,
    <<12630, "mapped", <<4456>>>>, <<12631, "mapped", <<4457>>>>, <<12632, "mapped", <<4458>>>>,
    <<12633, "mapped", <<4459>>>>, <<12634, "mapped", <<4460>>>>, <<12635, "mapped", <<4461>>>>,
    <<12636, "mapped", <<4462>>>>, <<12637, "mapped", <<4463>>>>, <<12638, "mapped", <<4464>>>>,
    <<12639, "mapped", <<4465>>>>, <<12640, "mapped", <<4466>>>>, <<12641, "mapped", <<4467>>>>,
    <<12642, "mapped", <<4468>>>>, <<12643, "mapped", <<4469>>>>, <<12644, "disallowed", <<>>>>,
    <<12645, "mapped", <<4372>>>>, <<12646, "mapped", <<4373>>>>, <<12647, "mapped", <<4551>>>>,
    <<12648, "mapped", <<4552>>>>, <<12649, "mapped", <<4556>>>>, <<12650, "mapped", <<4558>>>>,
    <<12651, "mapped", <<4563>>>>, <<12652, "mapped", <<4567>>>>, <<12653, "mapped", <<4569>>>>,
    <<12654, "mapped", <<4380>>>>, <<12655, "mapped", <<4573>>>>, <<12656, "mapped", <<4575>>>>,
    <<12657, "mapped", <<4381>>>>, <<12658, "mapped", <<4382>>>>, <<12659, "mapped", <<4384>>>>,
    <<12660, "mapped", <<4386>>>>, <<12661, "mapped", <<4387>>>>, <<12662, "mapped", <<4391>>>>,
    <<12663, "mapped", <<4393>>>>, <<12664, "mapped", <<4395>>>>, <<12665, "mapped", <<4396>>>>,
    <<12666, "mapped", <<4397>>>>, <<12667, "mapped", <<4398>>>>, <<12668, "mapped", <<4399>>>>,
    <<12669, "mapped", <<4402>>>>, <<12670, "mapped", <<4406>>>>, <<12671, "mapped", <<4416>>>>,
    <<12672, "mapped", <<4423>>>>, <<12673, "mapped", <<4428>>>>, <<12674, "mapped", <<4593>>>>,
    <<12675, "mapped", <<4594>>>>, <<12676, "mapped", <<4439>>>>, <<12677, "mapped", <<4440>>>>,
    <<12678, "mapped", <<4441>>>>, <<12679, "mapped", <<4484>>>>, <<12680, "mapped", <<4485>>>>,
    <<12681, "mapped", <<4488>>>>, <<12682, "mapped", <<4497>>>>, <<12683, "mapped", <<4498>>>>,
    <<12684, "mapped", <<4500>>>>, <<12685, "mapped", <<4510>>>>, <<12686, "mapped", <<4513>>>>,
    <<12687, "disallowed", <<>>>>, <<12688, "valid", <<>>>>, <<12690, "mapped", <<19968>>>>,
    <<12691, "mapped", <<20108>>>>, <<12692, "mapped", <<19977>>>>,
    <<12693, "mapped", <<22235>>>>, <<12694, "mapped", <<19978>>>>,
    <<12695, "mapped", <<20013>>>>, <<12696, "mapped", <<19979>>>>,
    <<12697, "mapped", <<30002>>>>, <<12698, "mapped", <<20057>>>>,
    <<12699, "mapped", <<19993>>>>, <<12700, "mapped", <<19969>>>>,
    <<12701, "mapped", <<22825>>>>, <<12702, "mapped", <<22320>>>>,
    <<12703, "mapped", <<20154>>>>, <<12704, "valid", <<>>>>, <<12772, "disallowed", <<>>>>,
    <<12784, "valid", <<>>>>, <<12800, "mapped", <<40, 4352, 41>>>>,
    <<12801, "mapped", <<40, 4354, 41>>>>, <<12802, "mapped", <<40, 4355, 41>>>>,
    <<12803, "mapped", <<40, 4357, 41>>>>, <<12804, "mapped", <<40, 4358, 41>>>>,
    <<12805, "mapped", <<40, 4359, 41>>>>, <<12806, "mapped", <<40, 4361, 41>>>>,
    <<12807, "mapped", <<40, 4363, 41>>>>, <<12808, "mapped", <<40, 4364, 41>>>>,
    <<12809, "mapped", <<40, 4366, 41>>>>, <<12810, "mapped", <<40, 4367, 41>>>>,
    <<12811, "mapped", <<40, 4368, 41>>>>, <<12812, "mapped", <<40, 4369, 41>>>>,
    <<12813, "mapped", <<40, 4370, 41>>>>, <<12814, "mapped", <<40, 44032, 41>>>>,
    <<12815, "mapped", <<40, 45208, 41>>>>, <<12816, "mapped", <<40, 45796, 41>>>>,
    <<12817, "mapped", <<40, 46972, 41>>>>, <<12818, "mapped", <<40, 47560, 41>>>>,
    <<12819, "mapped", <<40, 48148, 41>>>>, <<12820, "mapped", <<40, 49324, 41>>>>,
    <<12821, "mapped", <<40, 50500, 41>>>>, <<12822, "mapped", <<40, 51088, 41>>>>,
    <<12823, "mapped", <<40, 52264, 41>>>>, <<12824, "mapped", <<40, 52852, 41>>>>,
    <<12825, "mapped", <<40, 53440, 41>>>>, <<12826, "mapped", <<40, 54028, 41>>>>,
    <<12827, "mapped", <<40, 54616, 41>>>>, <<12828, "mapped", <<40, 51452, 41>>>>,
    <<12829, "mapped", <<40, 50724, 51204, 41>>>>, <<12830, "mapped", <<40, 50724, 54980, 41>>>>,
    <<12831, "disallowed", <<>>>>, <<12832, "mapped", <<40, 19968, 41>>>>,
    <<12833, "mapped", <<40, 20108, 41>>>>, <<12834, "mapped", <<40, 19977, 41>>>>,
    <<12835, "mapped", <<40, 22235, 41>>>>, <<12836, "mapped", <<40, 20116, 41>>>>,
    <<12837, "mapped", <<40, 20845, 41>>>>, <<12838, "mapped", <<40, 19971, 41>>>>,
    <<12839, "mapped", <<40, 20843, 41>>>>, <<12840, "mapped", <<40, 20061, 41>>>>,
    <<12841, "mapped", <<40, 21313, 41>>>>, <<12842, "mapped", <<40, 26376, 41>>>>,
    <<12843, "mapped", <<40, 28779, 41>>>>, <<12844, "mapped", <<40, 27700, 41>>>>,
    <<12845, "mapped", <<40, 26408, 41>>>>, <<12846, "mapped", <<40, 37329, 41>>>>,
    <<12847, "mapped", <<40, 22303, 41>>>>, <<12848, "mapped", <<40, 26085, 41>>>>,
    <<12849, "mapped", <<40, 26666, 41>>>>, <<12850, "mapped", <<40, 26377, 41>>>>,
    <<12851, "mapped", <<40, 31038, 41>>>>, <<12852, "mapped", <<40, 21517, 41>>>>,
    <<12853, "mapped", <<40, 29305, 41>>>>, <<12854, "mapped", <<40, 36001, 41>>>>,
    <<12855, "mapped", <<40, 31069, 41>>>>, <<12856, "mapped", <<40, 21172, 41>>>>,
    <<12857, "mapped", <<40, 20195, 41>>>>, <<12858, "mapped", <<40, 21628, 41>>>>,
    <<12859, "mapped", <<40, 23398, 41>>>>, <<12860, "mapped", <<40, 30435, 41>>>>,
    <<12861, "mapped", <<40, 20225, 41>>>>, <<12862, "mapped", <<40, 36039, 41>>>>,
    <<12863, "mapped", <<40, 21332, 41>>>>, <<12864, "mapped", <<40, 31085, 41>>>>,
    <<12865, "mapped", <<40, 20241, 41>>>>, <<12866, "mapped", <<40, 33258, 41>>>>,
    <<12867, "mapped", <<40, 33267, 41>>>>, <<12868, "mapped", <<21839>>>>,
    <<12869, "mapped", <<24188>>>>, <<12870, "mapped", <<25991>>>>,
    <<12871, "mapped", <<31631>>>>, <<12872, "valid", <<>>>>,
    <<12880, "mapped", <<112, 116, 101>>>>, <<12881, "mapped", <<50, 49>>>>,
    <<12882, "mapped", <<50, 50>>>>, <<12883, "mapped", <<50, 51>>>>,
    <<12884, "mapped", <<50, 52>>>>, <<12885, "mapped", <<50, 53>>>>,
    <<12886, "mapped", <<50, 54>>>>, <<12887, "mapped", <<50, 55>>>>,
    <<12888, "mapped", <<50, 56>>>>, <<12889, "mapped", <<50, 57>>>>,
    <<12890, "mapped", <<51, 48>>>>, <<12891, "mapped", <<51, 49>>>>,
    <<12892, "mapped", <<51, 50>>>>, <<12893, "mapped", <<51, 51>>>>,
    <<12894, "mapped", <<51, 52>>>>, <<12895, "mapped", <<51, 53>>>>,
    <<12896, "mapped", <<4352>>>>, <<12897, "mapped", <<4354>>>>, <<12898, "mapped", <<4355>>>>,
    <<12899, "mapped", <<4357>>>>, <<12900, "mapped", <<4358>>>>, <<12901, "mapped", <<4359>>>>,
    <<12902, "mapped", <<4361>>>>, <<12903, "mapped", <<4363>>>>, <<12904, "mapped", <<4364>>>>,
    <<12905, "mapped", <<4366>>>>, <<12906, "mapped", <<4367>>>>, <<12907, "mapped", <<4368>>>>,
    <<12908, "mapped", <<4369>>>>, <<12909, "mapped", <<4370>>>>, <<12910, "mapped", <<44032>>>>,
    <<12911, "mapped", <<45208>>>>, <<12912, "mapped", <<45796>>>>,
    <<12913, "mapped", <<46972>>>>, <<12914, "mapped", <<47560>>>>,
    <<12915, "mapped", <<48148>>>>, <<12916, "mapped", <<49324>>>>,
    <<12917, "mapped", <<50500>>>>, <<12918, "mapped", <<51088>>>>,
    <<12919, "mapped", <<52264>>>>, <<12920, "mapped", <<52852>>>>,
    <<12921, "mapped", <<53440>>>>, <<12922, "mapped", <<54028>>>>,
    <<12923, "mapped", <<54616>>>>, <<12924, "mapped", <<52280, 44256>>>>,
    <<12925, "mapped", <<51452, 51032>>>>, <<12926, "mapped", <<50864>>>>,
    <<12927, "valid", <<>>>>, <<12928, "mapped", <<19968>>>>, <<12929, "mapped", <<20108>>>>,
    <<12930, "mapped", <<19977>>>>, <<12931, "mapped", <<22235>>>>,
    <<12932, "mapped", <<20116>>>>, <<12933, "mapped", <<20845>>>>,
    <<12934, "mapped", <<19971>>>>, <<12935, "mapped", <<20843>>>>,
    <<12936, "mapped", <<20061>>>>, <<12937, "mapped", <<21313>>>>,
    <<12938, "mapped", <<26376>>>>, <<12939, "mapped", <<28779>>>>,
    <<12940, "mapped", <<27700>>>>, <<12941, "mapped", <<26408>>>>,
    <<12942, "mapped", <<37329>>>>, <<12943, "mapped", <<22303>>>>,
    <<12944, "mapped", <<26085>>>>, <<12945, "mapped", <<26666>>>>,
    <<12946, "mapped", <<26377>>>>, <<12947, "mapped", <<31038>>>>,
    <<12948, "mapped", <<21517>>>>, <<12949, "mapped", <<29305>>>>,
    <<12950, "mapped", <<36001>>>>, <<12951, "mapped", <<31069>>>>,
    <<12952, "mapped", <<21172>>>>, <<12953, "mapped", <<31192>>>>,
    <<12954, "mapped", <<30007>>>>, <<12955, "mapped", <<22899>>>>,
    <<12956, "mapped", <<36969>>>>, <<12957, "mapped", <<20778>>>>,
    <<12958, "mapped", <<21360>>>>, <<12959, "mapped", <<27880>>>>,
    <<12960, "mapped", <<38917>>>>, <<12961, "mapped", <<20241>>>>,
    <<12962, "mapped", <<20889>>>>, <<12963, "mapped", <<27491>>>>,
    <<12964, "mapped", <<19978>>>>, <<12965, "mapped", <<20013>>>>,
    <<12966, "mapped", <<19979>>>>, <<12967, "mapped", <<24038>>>>,
    <<12968, "mapped", <<21491>>>>, <<12969, "mapped", <<21307>>>>,
    <<12970, "mapped", <<23447>>>>, <<12971, "mapped", <<23398>>>>,
    <<12972, "mapped", <<30435>>>>, <<12973, "mapped", <<20225>>>>,
    <<12974, "mapped", <<36039>>>>, <<12975, "mapped", <<21332>>>>,
    <<12976, "mapped", <<22812>>>>, <<12977, "mapped", <<51, 54>>>>,
    <<12978, "mapped", <<51, 55>>>>, <<12979, "mapped", <<51, 56>>>>,
    <<12980, "mapped", <<51, 57>>>>, <<12981, "mapped", <<52, 48>>>>,
    <<12982, "mapped", <<52, 49>>>>, <<12983, "mapped", <<52, 50>>>>,
    <<12984, "mapped", <<52, 51>>>>, <<12985, "mapped", <<52, 52>>>>,
    <<12986, "mapped", <<52, 53>>>>, <<12987, "mapped", <<52, 54>>>>,
    <<12988, "mapped", <<52, 55>>>>, <<12989, "mapped", <<52, 56>>>>,
    <<12990, "mapped", <<52, 57>>>>, <<12991, "mapped", <<53, 48>>>>,
    <<12992, "mapped", <<49, 26376>>>>, <<12993, "mapped", <<50, 26376>>>>,
    <<12994, "mapped", <<51, 26376>>>>, <<12995, "mapped", <<52, 26376>>>>,
    <<12996, "mapped", <<53, 26376>>>>, <<12997, "mapped", <<54, 26376>>>>,
    <<12998, "mapped", <<55, 26376>>>>, <<12999, "mapped", <<56, 26376>>>>,
    <<13000, "mapped", <<57, 26376>>>>, <<13001, "mapped", <<49, 48, 26376>>>>,
    <<13002, "mapped", <<49, 49, 26376>>>>, <<13003, "mapped", <<49, 50, 26376>>>>,
    <<13004, "mapped", <<104, 103>>>>, <<13005, "mapped", <<101, 114, 103>>>>,
    <<13006, "mapped", <<101, 118>>>>, <<13007, "mapped", <<108, 116, 100>>>>,
    <<13008, "mapped", <<12450>>>>, <<13009, "mapped", <<12452>>>>,
    <<13010, "mapped", <<12454>>>>, <<13011, "mapped", <<12456>>>>,
    <<13012, "mapped", <<12458>>>>, <<13013, "mapped", <<12459>>>>,
    <<13014, "mapped", <<12461>>>>, <<13015, "mapped", <<12463>>>>,
    <<13016, "mapped", <<12465>>>>, <<13017, "mapped", <<12467>>>>,
    <<13018, "mapped", <<12469>>>>, <<13019, "mapped", <<12471>>>>,
    <<13020, "mapped", <<12473>>>>, <<13021, "mapped", <<12475>>>>,
    <<13022, "mapped", <<12477>>>>, <<13023, "mapped", <<12479>>>>,
    <<13024, "mapped", <<12481>>>>, <<13025, "mapped", <<12484>>>>,
    <<13026, "mapped", <<12486>>>>, <<13027, "mapped", <<12488>>>>,
    <<13028, "mapped", <<12490>>>>, <<13029, "mapped", <<12491>>>>,
    <<13030, "mapped", <<12492>>>>, <<13031, "mapped", <<12493>>>>,
    <<13032, "mapped", <<12494>>>>, <<13033, "mapped", <<12495>>>>,
    <<13034, "mapped", <<12498>>>>, <<13035, "mapped", <<12501>>>>,
    <<13036, "mapped", <<12504>>>>, <<13037, "mapped", <<12507>>>>,
    <<13038, "mapped", <<12510>>>>, <<13039, "mapped", <<12511>>>>,
    <<13040, "mapped", <<12512>>>>, <<13041, "mapped", <<12513>>>>,
    <<13042, "mapped", <<12514>>>>, <<13043, "mapped", <<12516>>>>,
    <<13044, "mapped", <<12518>>>>, <<13045, "mapped", <<12520>>>>,
    <<13046, "mapped", <<12521>>>>, <<13047, "mapped", <<12522>>>>,
    <<13048, "mapped", <<12523>>>>, <<13049, "mapped", <<12524>>>>,
    <<13050, "mapped", <<12525>>>>, <<13051, "mapped", <<12527>>>>,
    <<13052, "mapped", <<12528>>>>, <<13053, "mapped", <<12529>>>>,
    <<13054, "mapped", <<12530>>>>, <<13055, "mapped", <<20196, 21644>>>>,
    <<13056, "mapped", <<12450, 12497, 12540, 12488>>>>,
    <<13057, "mapped", <<12450, 12523, 12501, 12449>>>>,
    <<13058, "mapped", <<12450, 12531, 12506, 12450>>>>,
    <<13059, "mapped", <<12450, 12540, 12523>>>>,
    <<13060, "mapped", <<12452, 12491, 12531, 12464>>>>,
    <<13061, "mapped", <<12452, 12531, 12481>>>>, <<13062, "mapped", <<12454, 12457, 12531>>>>,
    <<13063, "mapped", <<12456, 12473, 12463, 12540, 12489>>>>,
    <<13064, "mapped", <<12456, 12540, 12459, 12540>>>>,
    <<13065, "mapped", <<12458, 12531, 12473>>>>, <<13066, "mapped", <<12458, 12540, 12512>>>>,
    <<13067, "mapped", <<12459, 12452, 12522>>>>,
    <<13068, "mapped", <<12459, 12521, 12483, 12488>>>>,
    <<13069, "mapped", <<12459, 12525, 12522, 12540>>>>,
    <<13070, "mapped", <<12460, 12525, 12531>>>>, <<13071, "mapped", <<12460, 12531, 12510>>>>,
    <<13072, "mapped", <<12462, 12460>>>>, <<13073, "mapped", <<12462, 12491, 12540>>>>,
    <<13074, "mapped", <<12461, 12517, 12522, 12540>>>>,
    <<13075, "mapped", <<12462, 12523, 12480, 12540>>>>, <<13076, "mapped", <<12461, 12525>>>>,
    <<13077, "mapped", <<12461, 12525, 12464, 12521, 12512>>>>,
    <<13078, "mapped", <<12461, 12525, 12513, 12540, 12488, 12523>>>>,
    <<13079, "mapped", <<12461, 12525, 12527, 12483, 12488>>>>,
    <<13080, "mapped", <<12464, 12521, 12512>>>>,
    <<13081, "mapped", <<12464, 12521, 12512, 12488, 12531>>>>,
    <<13082, "mapped", <<12463, 12523, 12476, 12452, 12525>>>>,
    <<13083, "mapped", <<12463, 12525, 12540, 12493>>>>,
    <<13084, "mapped", <<12465, 12540, 12473>>>>, <<13085, "mapped", <<12467, 12523, 12490>>>>,
    <<13086, "mapped", <<12467, 12540, 12509>>>>,
    <<13087, "mapped", <<12469, 12452, 12463, 12523>>>>,
    <<13088, "mapped", <<12469, 12531, 12481, 12540, 12512>>>>,
    <<13089, "mapped", <<12471, 12522, 12531, 12464>>>>,
    <<13090, "mapped", <<12475, 12531, 12481>>>>, <<13091, "mapped", <<12475, 12531, 12488>>>>,
    <<13092, "mapped", <<12480, 12540, 12473>>>>, <<13093, "mapped", <<12487, 12471>>>>,
    <<13094, "mapped", <<12489, 12523>>>>, <<13095, "mapped", <<12488, 12531>>>>,
    <<13096, "mapped", <<12490, 12494>>>>, <<13097, "mapped", <<12494, 12483, 12488>>>>,
    <<13098, "mapped", <<12495, 12452, 12484>>>>,
    <<13099, "mapped", <<12497, 12540, 12475, 12531, 12488>>>>,
    <<13100, "mapped", <<12497, 12540, 12484>>>>,
    <<13101, "mapped", <<12496, 12540, 12524, 12523>>>>,
    <<13102, "mapped", <<12500, 12450, 12473, 12488, 12523>>>>,
    <<13103, "mapped", <<12500, 12463, 12523>>>>, <<13104, "mapped", <<12500, 12467>>>>,
    <<13105, "mapped", <<12499, 12523>>>>,
    <<13106, "mapped", <<12501, 12449, 12521, 12483, 12489>>>>,
    <<13107, "mapped", <<12501, 12451, 12540, 12488>>>>,
    <<13108, "mapped", <<12502, 12483, 12471, 12455, 12523>>>>,
    <<13109, "mapped", <<12501, 12521, 12531>>>>,
    <<13110, "mapped", <<12504, 12463, 12479, 12540, 12523>>>>,
    <<13111, "mapped", <<12506, 12477>>>>, <<13112, "mapped", <<12506, 12491, 12498>>>>,
    <<13113, "mapped", <<12504, 12523, 12484>>>>, <<13114, "mapped", <<12506, 12531, 12473>>>>,
    <<13115, "mapped", <<12506, 12540, 12472>>>>, <<13116, "mapped", <<12505, 12540, 12479>>>>,
    <<13117, "mapped", <<12509, 12452, 12531, 12488>>>>,
    <<13118, "mapped", <<12508, 12523, 12488>>>>, <<13119, "mapped", <<12507, 12531>>>>,
    <<13120, "mapped", <<12509, 12531, 12489>>>>, <<13121, "mapped", <<12507, 12540, 12523>>>>,
    <<13122, "mapped", <<12507, 12540, 12531>>>>,
    <<13123, "mapped", <<12510, 12452, 12463, 12525>>>>,
    <<13124, "mapped", <<12510, 12452, 12523>>>>, <<13125, "mapped", <<12510, 12483, 12495>>>>,
    <<13126, "mapped", <<12510, 12523, 12463>>>>,
    <<13127, "mapped", <<12510, 12531, 12471, 12519, 12531>>>>,
    <<13128, "mapped", <<12511, 12463, 12525, 12531>>>>, <<13129, "mapped", <<12511, 12522>>>>,
    <<13130, "mapped", <<12511, 12522, 12496, 12540, 12523>>>>,
    <<13131, "mapped", <<12513, 12460>>>>, <<13132, "mapped", <<12513, 12460, 12488, 12531>>>>,
    <<13133, "mapped", <<12513, 12540, 12488, 12523>>>>,
    <<13134, "mapped", <<12516, 12540, 12489>>>>, <<13135, "mapped", <<12516, 12540, 12523>>>>,
    <<13136, "mapped", <<12518, 12450, 12531>>>>,
    <<13137, "mapped", <<12522, 12483, 12488, 12523>>>>, <<13138, "mapped", <<12522, 12521>>>>,
    <<13139, "mapped", <<12523, 12500, 12540>>>>,
    <<13140, "mapped", <<12523, 12540, 12502, 12523>>>>, <<13141, "mapped", <<12524, 12512>>>>,
    <<13142, "mapped", <<12524, 12531, 12488, 12466, 12531>>>>,
    <<13143, "mapped", <<12527, 12483, 12488>>>>, <<13144, "mapped", <<48, 28857>>>>,
    <<13145, "mapped", <<49, 28857>>>>, <<13146, "mapped", <<50, 28857>>>>,
    <<13147, "mapped", <<51, 28857>>>>, <<13148, "mapped", <<52, 28857>>>>,
    <<13149, "mapped", <<53, 28857>>>>, <<13150, "mapped", <<54, 28857>>>>,
    <<13151, "mapped", <<55, 28857>>>>, <<13152, "mapped", <<56, 28857>>>>,
    <<13153, "mapped", <<57, 28857>>>>, <<13154, "mapped", <<49, 48, 28857>>>>,
    <<13155, "mapped", <<49, 49, 28857>>>>, <<13156, "mapped", <<49, 50, 28857>>>>,
    <<13157, "mapped", <<49, 51, 28857>>>>, <<13158, "mapped", <<49, 52, 28857>>>>,
    <<13159, "mapped", <<49, 53, 28857>>>>, <<13160, "mapped", <<49, 54, 28857>>>>,
    <<13161, "mapped", <<49, 55, 28857>>>>, <<13162, "mapped", <<49, 56, 28857>>>>,
    <<13163, "mapped", <<49, 57, 28857>>>>, <<13164, "mapped", <<50, 48, 28857>>>>,
    <<13165, "mapped", <<50, 49, 28857>>>>, <<13166, "mapped", <<50, 50, 28857>>>>,
    <<13167, "mapped", <<50, 51, 28857>>>>, <<13168, "mapped", <<50, 52, 28857>>>>,
    <<13169, "mapped", <<104, 112, 97>>>>, <<13170, "mapped", <<100, 97>>>>,
    <<13171, "mapped", <<97, 117>>>>, <<13172, "mapped", <<98, 97, 114>>>>,
    <<13173, "mapped", <<111, 118>>>>, <<13174, "mapped", <<112, 99>>>>,
    <<13175, "mapped", <<100, 109>>>>, <<13176, "mapped", <<100, 109, 50>>>>,
    <<13177, "mapped", <<100, 109, 51>>>>, <<13178, "mapped", <<105, 117>>>>,
    <<13179, "mapped", <<24179, 25104>>>>, <<13180, "mapped", <<26157, 21644>>>>,
    <<13181, "mapped", <<22823, 27491>>>>, <<13182, "mapped", <<26126, 27835>>>>,
    <<13183, "mapped", <<26666, 24335, 20250, 31038>>>>, <<13184, "mapped", <<112, 97>>>>,
    <<13185, "mapped", <<110, 97>>>>, <<13186, "mapped", <<956, 97>>>>,
    <<13187, "mapped", <<109, 97>>>>, <<13188, "mapped", <<107, 97>>>>,
    <<13189, "mapped", <<107, 98>>>>, <<13190, "mapped", <<109, 98>>>>,
    <<13191, "mapped", <<103, 98>>>>, <<13192, "mapped", <<99, 97, 108>>>>,
    <<13193, "mapped", <<107, 99, 97, 108>>>>, <<13194, "mapped", <<112, 102>>>>,
    <<13195, "mapped", <<110, 102>>>>, <<13196, "mapped", <<956, 102>>>>,
    <<13197, "mapped", <<956, 103>>>>, <<13198, "mapped", <<109, 103>>>>,
    <<13199, "mapped", <<107, 103>>>>, <<13200, "mapped", <<104, 122>>>>,
    <<13201, "mapped", <<107, 104, 122>>>>, <<13202, "mapped", <<109, 104, 122>>>>,
    <<13203, "mapped", <<103, 104, 122>>>>, <<13204, "mapped", <<116, 104, 122>>>>,
    <<13205, "mapped", <<956, 108>>>>, <<13206, "mapped", <<109, 108>>>>,
    <<13207, "mapped", <<100, 108>>>>, <<13208, "mapped", <<107, 108>>>>,
    <<13209, "mapped", <<102, 109>>>>, <<13210, "mapped", <<110, 109>>>>,
    <<13211, "mapped", <<956, 109>>>>, <<13212, "mapped", <<109, 109>>>>,
    <<13213, "mapped", <<99, 109>>>>, <<13214, "mapped", <<107, 109>>>>,
    <<13215, "mapped", <<109, 109, 50>>>>, <<13216, "mapped", <<99, 109, 50>>>>,
    <<13217, "mapped", <<109, 50>>>>, <<13218, "mapped", <<107, 109, 50>>>>,
    <<13219, "mapped", <<109, 109, 51>>>>, <<13220, "mapped", <<99, 109, 51>>>>,
    <<13221, "mapped", <<109, 51>>>>, <<13222, "mapped", <<107, 109, 51>>>>,
    <<13223, "mapped", <<109, 8725, 115>>>>, <<13224, "mapped", <<109, 8725, 115, 50>>>>,
    <<13225, "mapped", <<112, 97>>>>, <<13226, "mapped", <<107, 112, 97>>>>,
    <<13227, "mapped", <<109, 112, 97>>>>, <<13228, "mapped", <<103, 112, 97>>>>,
    <<13229, "mapped", <<114, 97, 100>>>>, <<13230, "mapped", <<114, 97, 100, 8725, 115>>>>,
    <<13231, "mapped", <<114, 97, 100, 8725, 115, 50>>>>, <<13232, "mapped", <<112, 115>>>>,
    <<13233, "mapped", <<110, 115>>>>, <<13234, "mapped", <<956, 115>>>>,
    <<13235, "mapped", <<109, 115>>>>, <<13236, "mapped", <<112, 118>>>>,
    <<13237, "mapped", <<110, 118>>>>, <<13238, "mapped", <<956, 118>>>>,
    <<13239, "mapped", <<109, 118>>>>, <<13240, "mapped", <<107, 118>>>>,
    <<13241, "mapped", <<109, 118>>>>, <<13242, "mapped", <<112, 119>>>>,
    <<13243, "mapped", <<110, 119>>>>, <<13244, "mapped", <<956, 119>>>>,
    <<13245, "mapped", <<109, 119>>>>, <<13246, "mapped", <<107, 119>>>>,
    <<13247, "mapped", <<109, 119>>>>, <<13248, "mapped", <<107, 969>>>>,
    <<13249, "mapped", <<109, 969>>>>, <<13250, "disallowed", <<>>>>,
    <<13251, "mapped", <<98, 113>>>>, <<13252, "mapped", <<99, 99>>>>,
    <<13253, "mapped", <<99, 100>>>>, <<13254, "mapped", <<99, 8725, 107, 103>>>>,
    <<13255, "disallowed", <<>>>>, <<13256, "mapped", <<100, 98>>>>,
    <<13257, "mapped", <<103, 121>>>>, <<13258, "mapped", <<104, 97>>>>,
    <<13259, "mapped", <<104, 112>>>>, <<13260, "mapped", <<105, 110>>>>,
    <<13261, "mapped", <<107, 107>>>>, <<13262, "mapped", <<107, 109>>>>,
    <<13263, "mapped", <<107, 116>>>>, <<13264, "mapped", <<108, 109>>>>,
    <<13265, "mapped", <<108, 110>>>>, <<13266, "mapped", <<108, 111, 103>>>>,
    <<13267, "mapped", <<108, 120>>>>, <<13268, "mapped", <<109, 98>>>>,
    <<13269, "mapped", <<109, 105, 108>>>>, <<13270, "mapped", <<109, 111, 108>>>>,
    <<13271, "mapped", <<112, 104>>>>, <<13272, "disallowed", <<>>>>,
    <<13273, "mapped", <<112, 112, 109>>>>, <<13274, "mapped", <<112, 114>>>>,
    <<13275, "mapped", <<115, 114>>>>, <<13276, "mapped", <<115, 118>>>>,
    <<13277, "mapped", <<119, 98>>>>, <<13278, "mapped", <<118, 8725, 109>>>>,
    <<13279, "mapped", <<97, 8725, 109>>>>, <<13280, "mapped", <<49, 26085>>>>,
    <<13281, "mapped", <<50, 26085>>>>, <<13282, "mapped", <<51, 26085>>>>,
    <<13283, "mapped", <<52, 26085>>>>, <<13284, "mapped", <<53, 26085>>>>,
    <<13285, "mapped", <<54, 26085>>>>, <<13286, "mapped", <<55, 26085>>>>,
    <<13287, "mapped", <<56, 26085>>>>, <<13288, "mapped", <<57, 26085>>>>,
    <<13289, "mapped", <<49, 48, 26085>>>>, <<13290, "mapped", <<49, 49, 26085>>>>,
    <<13291, "mapped", <<49, 50, 26085>>>>, <<13292, "mapped", <<49, 51, 26085>>>>,
    <<13293, "mapped", <<49, 52, 26085>>>>, <<13294, "mapped", <<49, 53, 26085>>>>,
    <<13295, "mapped", <<49, 54, 26085>>>>, <<13296, "mapped", <<49, 55, 26085>>>>,
    <<13297, "mapped", <<49, 56, 26085>>>>, <<13298, "mapped", <<49, 57, 26085>>>>,
    <<13299, "mapped", <<50, 48, 26085>>>>, <<13300, "mapped", <<50, 49, 26085>>>>,
    <<13301, "mapped", <<50, 50, 26085>>>>, <<13302, "mapped", <<50, 51, 26085>>>>,
    <<13303, "mapped", <<50, 52, 26085>>>>, <<13304, "mapped", <<50, 53, 26085>>>>,
    <<13305, "mapped", <<50, 54, 26085>>>>, <<13306, "mapped", <<50, 55, 26085>>>>,
    <<13307, "mapped", <<50, 56, 26085>>>>, <<13308, "mapped", <<50, 57, 26085>>>>,
    <<13309, "mapped", <<51, 48, 26085>>>>, <<13310, "mapped", <<51, 49, 26085>>>>,
    <<13311, "mapped", <<103, 97, 108>>>>, <<13312, "valid", <<>>>>,
    <<42125, "disallowed", <<>>>>, <<42128, "valid", <<>>>>, <<42183, "disallowed", <<>>>>,
    <<42192, "valid", <<>>>>, <<42540, "disallowed", <<>>>>, <<42560, "mapped", <<42561>>>>,
    <<42561, "valid", <<>>>>, <<42562, "mapped", <<42563>>>>, <<42563, "valid", <<>>>>,
    <<42564, "mapped", <<42565>>>>, <<42565, "valid", <<>>>>, <<42566, "mapped", <<42567>>>>,
    <<42567, "valid", <<>>>>, <<42568, "mapped", <<42569>>>>, <<42569, "valid", <<>>>>,
    <<42570, "mapped", <<42571>>>>, <<42571, "valid", <<>>>>, <<42572, "mapped", <<42573>>>>,
    <<42573, "valid", <<>>>>, <<42574, "mapped", <<42575>>>>, <<42575, "valid", <<>>>>,
    <<42576, "mapped", <<42577>>>>, <<42577, "valid", <<>>>>, <<42578, "mapped", <<42579>>>>,
    <<42579, "valid", <<>>>>, <<42580, "mapped", <<42581>>>>, <<42581, "valid", <<>>>>,
    <<42582, "mapped", <<42583>>>>, <<42583, "valid", <<>>>>, <<42584, "mapped", <<42585>>>>,
    <<42585, "valid", <<>>>>, <<42586, "mapped", <<42587>>>>, <<42587, "valid", <<>>>>,
    <<42588, "mapped", <<42589>>>>, <<42589, "valid", <<>>>>, <<42590, "mapped", <<42591>>>>,
    <<42591, "valid", <<>>>>, <<42592, "mapped", <<42593>>>>, <<42593, "valid", <<>>>>,
    <<42594, "mapped", <<42595>>>>, <<42595, "valid", <<>>>>, <<42596, "mapped", <<42597>>>>,
    <<42597, "valid", <<>>>>, <<42598, "mapped", <<42599>>>>, <<42599, "valid", <<>>>>,
    <<42600, "mapped", <<42601>>>>, <<42601, "valid", <<>>>>, <<42602, "mapped", <<42603>>>>,
    <<42603, "valid", <<>>>>, <<42604, "mapped", <<42605>>>>, <<42605, "valid", <<>>>>,
    <<42624, "mapped", <<42625>>>>, <<42625, "valid", <<>>>>, <<42626, "mapped", <<42627>>>>,
    <<42627, "valid", <<>>>>, <<42628, "mapped", <<42629>>>>, <<42629, "valid", <<>>>>,
    <<42630, "mapped", <<42631>>>>, <<42631, "valid", <<>>>>, <<42632, "mapped", <<42633>>>>,
    <<42633, "valid", <<>>>>, <<42634, "mapped", <<42635>>>>, <<42635, "valid", <<>>>>,
    <<42636, "mapped", <<42637>>>>, <<42637, "valid", <<>>>>, <<42638, "mapped", <<42639>>>>,
    <<42639, "valid", <<>>>>, <<42640, "mapped", <<42641>>>>, <<42641, "valid", <<>>>>,
    <<42642, "mapped", <<42643>>>>, <<42643, "valid", <<>>>>, <<42644, "mapped", <<42645>>>>,
    <<42645, "valid", <<>>>>, <<42646, "mapped", <<42647>>>>, <<42647, "valid", <<>>>>,
    <<42648, "mapped", <<42649>>>>, <<42649, "valid", <<>>>>, <<42650, "mapped", <<42651>>>>,
    <<42651, "valid", <<>>>>, <<42652, "mapped", <<1098>>>>, <<42653, "mapped", <<1100>>>>,
    <<42654, "valid", <<>>>>, <<42744, "disallowed", <<>>>>, <<42752, "valid", <<>>>>,
    <<42786, "mapped", <<42787>>>>, <<42787, "valid", <<>>>>, <<42788, "mapped", <<42789>>>>,
    <<42789, "valid", <<>>>>, <<42790, "mapped", <<42791>>>>, <<42791, "valid", <<>>>>,
    <<42792, "mapped", <<42793>>>>, <<42793, "valid", <<>>>>, <<42794, "mapped", <<42795>>>>,
    <<42795, "valid", <<>>>>, <<42796, "mapped", <<42797>>>>, <<42797, "valid", <<>>>>,
    <<42798, "mapped", <<42799>>>>, <<42799, "valid", <<>>>>, <<42802, "mapped", <<42803>>>>,
    <<42803, "valid", <<>>>>, <<42804, "mapped", <<42805>>>>, <<42805, "valid", <<>>>>,
    <<42806, "mapped", <<42807>>>>, <<42807, "valid", <<>>>>, <<42808, "mapped", <<42809>>>>,
    <<42809, "valid", <<>>>>, <<42810, "mapped", <<42811>>>>, <<42811, "valid", <<>>>>,
    <<42812, "mapped", <<42813>>>>, <<42813, "valid", <<>>>>, <<42814, "mapped", <<42815>>>>,
    <<42815, "valid", <<>>>>, <<42816, "mapped", <<42817>>>>, <<42817, "valid", <<>>>>,
    <<42818, "mapped", <<42819>>>>, <<42819, "valid", <<>>>>, <<42820, "mapped", <<42821>>>>,
    <<42821, "valid", <<>>>>, <<42822, "mapped", <<42823>>>>, <<42823, "valid", <<>>>>,
    <<42824, "mapped", <<42825>>>>, <<42825, "valid", <<>>>>, <<42826, "mapped", <<42827>>>>,
    <<42827, "valid", <<>>>>, <<42828, "mapped", <<42829>>>>, <<42829, "valid", <<>>>>,
    <<42830, "mapped", <<42831>>>>, <<42831, "valid", <<>>>>, <<42832, "mapped", <<42833>>>>,
    <<42833, "valid", <<>>>>, <<42834, "mapped", <<42835>>>>, <<42835, "valid", <<>>>>,
    <<42836, "mapped", <<42837>>>>, <<42837, "valid", <<>>>>, <<42838, "mapped", <<42839>>>>,
    <<42839, "valid", <<>>>>, <<42840, "mapped", <<42841>>>>, <<42841, "valid", <<>>>>,
    <<42842, "mapped", <<42843>>>>, <<42843, "valid", <<>>>>, <<42844, "mapped", <<42845>>>>,
    <<42845, "valid", <<>>>>, <<42846, "mapped", <<42847>>>>, <<42847, "valid", <<>>>>,
    <<42848, "mapped", <<42849>>>>, <<42849, "valid", <<>>>>, <<42850, "mapped", <<42851>>>>,
    <<42851, "valid", <<>>>>, <<42852, "mapped", <<42853>>>>, <<42853, "valid", <<>>>>,
    <<42854, "mapped", <<42855>>>>, <<42855, "valid", <<>>>>, <<42856, "mapped", <<42857>>>>,
    <<42857, "valid", <<>>>>, <<42858, "mapped", <<42859>>>>, <<42859, "valid", <<>>>>,
    <<42860, "mapped", <<42861>>>>, <<42861, "valid", <<>>>>, <<42862, "mapped", <<42863>>>>,
    <<42863, "valid", <<>>>>, <<42864, "mapped", <<42863>>>>, <<42865, "valid", <<>>>>,
    <<42873, "mapped", <<42874>>>>, <<42874, "valid", <<>>>>, <<42875, "mapped", <<42876>>>>,
    <<42876, "valid", <<>>>>, <<42877, "mapped", <<7545>>>>, <<42878, "mapped", <<42879>>>>,
    <<42879, "valid", <<>>>>, <<42880, "mapped", <<42881>>>>, <<42881, "valid", <<>>>>,
    <<42882, "mapped", <<42883>>>>, <<42883, "valid", <<>>>>, <<42884, "mapped", <<42885>>>>,
    <<42885, "valid", <<>>>>, <<42886, "mapped", <<42887>>>>, <<42887, "valid", <<>>>>,
    <<42891, "mapped", <<42892>>>>, <<42892, "valid", <<>>>>, <<42893, "mapped", <<613>>>>,
    <<42894, "valid", <<>>>>, <<42896, "mapped", <<42897>>>>, <<42897, "valid", <<>>>>,
    <<42898, "mapped", <<42899>>>>, <<42899, "valid", <<>>>>, <<42902, "mapped", <<42903>>>>,
    <<42903, "valid", <<>>>>, <<42904, "mapped", <<42905>>>>, <<42905, "valid", <<>>>>,
    <<42906, "mapped", <<42907>>>>, <<42907, "valid", <<>>>>, <<42908, "mapped", <<42909>>>>,
    <<42909, "valid", <<>>>>, <<42910, "mapped", <<42911>>>>, <<42911, "valid", <<>>>>,
    <<42912, "mapped", <<42913>>>>, <<42913, "valid", <<>>>>, <<42914, "mapped", <<42915>>>>,
    <<42915, "valid", <<>>>>, <<42916, "mapped", <<42917>>>>, <<42917, "valid", <<>>>>,
    <<42918, "mapped", <<42919>>>>, <<42919, "valid", <<>>>>, <<42920, "mapped", <<42921>>>>,
    <<42921, "valid", <<>>>>, <<42922, "mapped", <<614>>>>, <<42923, "mapped", <<604>>>>,
    <<42924, "mapped", <<609>>>>, <<42925, "mapped", <<620>>>>, <<42926, "mapped", <<618>>>>,
    <<42927, "valid", <<>>>>, <<42928, "mapped", <<670>>>>, <<42929, "mapped", <<647>>>>,
    <<42930, "mapped", <<669>>>>, <<42931, "mapped", <<43859>>>>, <<42932, "mapped", <<42933>>>>,
    <<42933, "valid", <<>>>>, <<42934, "mapped", <<42935>>>>, <<42935, "valid", <<>>>>,
    <<42936, "mapped", <<42937>>>>, <<42937, "valid", <<>>>>, <<42938, "mapped", <<42939>>>>,
    <<42939, "valid", <<>>>>, <<42940, "mapped", <<42941>>>>, <<42941, "valid", <<>>>>,
    <<42942, "mapped", <<42943>>>>, <<42943, "valid", <<>>>>, <<42944, "mapped", <<42945>>>>,
    <<42945, "valid", <<>>>>, <<42946, "mapped", <<42947>>>>, <<42947, "valid", <<>>>>,
    <<42948, "mapped", <<42900>>>>, <<42949, "mapped", <<642>>>>, <<42950, "mapped", <<7566>>>>,
    <<42951, "mapped", <<42952>>>>, <<42952, "valid", <<>>>>, <<42953, "mapped", <<42954>>>>,
    <<42954, "valid", <<>>>>, <<42955, "disallowed", <<>>>>, <<42960, "mapped", <<42961>>>>,
    <<42961, "valid", <<>>>>, <<42962, "disallowed", <<>>>>, <<42963, "valid", <<>>>>,
    <<42964, "disallowed", <<>>>>, <<42965, "valid", <<>>>>, <<42966, "mapped", <<42967>>>>,
    <<42967, "valid", <<>>>>, <<42968, "mapped", <<42969>>>>, <<42969, "valid", <<>>>>,
    <<42970, "disallowed", <<>>>>, <<42994, "mapped", <<99>>>>, <<42995, "mapped", <<102>>>>,
    <<42996, "mapped", <<113>>>>, <<42997, "mapped", <<42998>>>>, <<42998, "valid", <<>>>>,
    <<43000, "mapped", <<295>>>>, <<43001, "mapped", <<339>>>>, <<43002, "valid", <<>>>>,
    <<43053, "disallowed", <<>>>>, <<43056, "valid", <<>>>>, <<43066, "disallowed", <<>>>>,
    <<43072, "valid", <<>>>>, <<43128, "disallowed", <<>>>>, <<43136, "valid", <<>>>>,
    <<43206, "disallowed", <<>>>>, <<43214, "valid", <<>>>>, <<43226, "disallowed", <<>>>>,
    <<43232, "valid", <<>>>>, <<43348, "disallowed", <<>>>>, <<43359, "valid", <<>>>>,
    <<43389, "disallowed", <<>>>>, <<43392, "valid", <<>>>>, <<43470, "disallowed", <<>>>>,
    <<43471, "valid", <<>>>>, <<43482, "disallowed", <<>>>>, <<43486, "valid", <<>>>>,
    <<43519, "disallowed", <<>>>>, <<43520, "valid", <<>>>>, <<43575, "disallowed", <<>>>>,
    <<43584, "valid", <<>>>>, <<43598, "disallowed", <<>>>>, <<43600, "valid", <<>>>>,
    <<43610, "disallowed", <<>>>>, <<43612, "valid", <<>>>>, <<43715, "disallowed", <<>>>>,
    <<43739, "valid", <<>>>>, <<43767, "disallowed", <<>>>>, <<43777, "valid", <<>>>>,
    <<43783, "disallowed", <<>>>>, <<43785, "valid", <<>>>>, <<43791, "disallowed", <<>>>>,
    <<43793, "valid", <<>>>>, <<43799, "disallowed", <<>>>>, <<43808, "valid", <<>>>>,
    <<43815, "disallowed", <<>>>>, <<43816, "valid", <<>>>>, <<43823, "disallowed", <<>>>>,
    <<43824, "valid", <<>>>>, <<43868, "mapped", <<42791>>>>, <<43869, "mapped", <<43831>>>>,
    <<43870, "mapped", <<619>>>>, <<43871, "mapped", <<43858>>>>, <<43872, "valid", <<>>>>,
    <<43881, "mapped", <<653>>>>, <<43882, "valid", <<>>>>, <<43884, "disallowed", <<>>>>,
    <<43888, "mapped", <<5024>>>>, <<43889, "mapped", <<5025>>>>, <<43890, "mapped", <<5026>>>>,
    <<43891, "mapped", <<5027>>>>, <<43892, "mapped", <<5028>>>>, <<43893, "mapped", <<5029>>>>,
    <<43894, "mapped", <<5030>>>>, <<43895, "mapped", <<5031>>>>, <<43896, "mapped", <<5032>>>>,
    <<43897, "mapped", <<5033>>>>, <<43898, "mapped", <<5034>>>>, <<43899, "mapped", <<5035>>>>,
    <<43900, "mapped", <<5036>>>>, <<43901, "mapped", <<5037>>>>, <<43902, "mapped", <<5038>>>>,
    <<43903, "mapped", <<5039>>>>, <<43904, "mapped", <<5040>>>>, <<43905, "mapped", <<5041>>>>,
    <<43906, "mapped", <<5042>>>>, <<43907, "mapped", <<5043>>>>, <<43908, "mapped", <<5044>>>>,
    <<43909, "mapped", <<5045>>>>, <<43910, "mapped", <<5046>>>>, <<43911, "mapped", <<5047>>>>,
    <<43912, "mapped", <<5048>>>>, <<43913, "mapped", <<5049>>>>, <<43914, "mapped", <<5050>>>>,
    <<43915, "mapped", <<5051>>>>, <<43916, "mapped", <<5052>>>>, <<43917, "mapped", <<5053>>>>,
    <<43918, "mapped", <<5054>>>>, <<43919, "mapped", <<5055>>>>, <<43920, "mapped", <<5056>>>>,
    <<43921, "mapped", <<5057>>>>, <<43922, "mapped", <<5058>>>>, <<43923, "mapped", <<5059>>>>,
    <<43924, "mapped", <<5060>>>>, <<43925, "mapped", <<5061>>>>, <<43926, "mapped", <<5062>>>>,
    <<43927, "mapped", <<5063>>>>, <<43928, "mapped", <<5064>>>>, <<43929, "mapped", <<5065>>>>,
    <<43930, "mapped", <<5066>>>>, <<43931, "mapped", <<5067>>>>, <<43932, "mapped", <<5068>>>>,
    <<43933, "mapped", <<5069>>>>, <<43934, "mapped", <<5070>>>>, <<43935, "mapped", <<5071>>>>,
    <<43936, "mapped", <<5072>>>>, <<43937, "mapped", <<5073>>>>, <<43938, "mapped", <<5074>>>>,
    <<43939, "mapped", <<5075>>>>, <<43940, "mapped", <<5076>>>>, <<43941, "mapped", <<5077>>>>,
    <<43942, "mapped", <<5078>>>>, <<43943, "mapped", <<5079>>>>, <<43944, "mapped", <<5080>>>>,
    <<43945, "mapped", <<5081>>>>, <<43946, "mapped", <<5082>>>>, <<43947, "mapped", <<5083>>>>,
    <<43948, "mapped", <<5084>>>>, <<43949, "mapped", <<5085>>>>, <<43950, "mapped", <<5086>>>>,
    <<43951, "mapped", <<5087>>>>, <<43952, "mapped", <<5088>>>>, <<43953, "mapped", <<5089>>>>,
    <<43954, "mapped", <<5090>>>>, <<43955, "mapped", <<5091>>>>, <<43956, "mapped", <<5092>>>>,
    <<43957, "mapped", <<5093>>>>, <<43958, "mapped", <<5094>>>>, <<43959, "mapped", <<5095>>>>,
    <<43960, "mapped", <<5096>>>>, <<43961, "mapped", <<5097>>>>, <<43962, "mapped", <<5098>>>>,
    <<43963, "mapped", <<5099>>>>, <<43964, "mapped", <<5100>>>>, <<43965, "mapped", <<5101>>>>,
    <<43966, "mapped", <<5102>>>>, <<43967, "mapped", <<5103>>>>, <<43968, "valid", <<>>>>,
    <<44014, "disallowed", <<>>>>, <<44016, "valid", <<>>>>, <<44026, "disallowed", <<>>>>,
    <<44032, "valid", <<>>>>, <<55204, "disallowed", <<>>>>, <<55216, "valid", <<>>>>,
    <<55239, "disallowed", <<>>>>, <<55243, "valid", <<>>>>, <<55292, "disallowed", <<>>>>,
    <<63744, "mapped", <<35912>>>>, <<63745, "mapped", <<26356>>>>,
    <<63746, "mapped", <<36554>>>>, <<63747, "mapped", <<36040>>>>,
    <<63748, "mapped", <<28369>>>>, <<63749, "mapped", <<20018>>>>,
    <<63750, "mapped", <<21477>>>>, <<63751, "mapped", <<40860>>>>,
    <<63753, "mapped", <<22865>>>>, <<63754, "mapped", <<37329>>>>,
    <<63755, "mapped", <<21895>>>>, <<63756, "mapped", <<22856>>>>,
    <<63757, "mapped", <<25078>>>>, <<63758, "mapped", <<30313>>>>,
    <<63759, "mapped", <<32645>>>>, <<63760, "mapped", <<34367>>>>,
    <<63761, "mapped", <<34746>>>>, <<63762, "mapped", <<35064>>>>,
    <<63763, "mapped", <<37007>>>>, <<63764, "mapped", <<27138>>>>,
    <<63765, "mapped", <<27931>>>>, <<63766, "mapped", <<28889>>>>,
    <<63767, "mapped", <<29662>>>>, <<63768, "mapped", <<33853>>>>,
    <<63769, "mapped", <<37226>>>>, <<63770, "mapped", <<39409>>>>,
    <<63771, "mapped", <<20098>>>>, <<63772, "mapped", <<21365>>>>,
    <<63773, "mapped", <<27396>>>>, <<63774, "mapped", <<29211>>>>,
    <<63775, "mapped", <<34349>>>>, <<63776, "mapped", <<40478>>>>,
    <<63777, "mapped", <<23888>>>>, <<63778, "mapped", <<28651>>>>,
    <<63779, "mapped", <<34253>>>>, <<63780, "mapped", <<35172>>>>,
    <<63781, "mapped", <<25289>>>>, <<63782, "mapped", <<33240>>>>,
    <<63783, "mapped", <<34847>>>>, <<63784, "mapped", <<24266>>>>,
    <<63785, "mapped", <<26391>>>>, <<63786, "mapped", <<28010>>>>,
    <<63787, "mapped", <<29436>>>>, <<63788, "mapped", <<37070>>>>,
    <<63789, "mapped", <<20358>>>>, <<63790, "mapped", <<20919>>>>,
    <<63791, "mapped", <<21214>>>>, <<63792, "mapped", <<25796>>>>,
    <<63793, "mapped", <<27347>>>>, <<63794, "mapped", <<29200>>>>,
    <<63795, "mapped", <<30439>>>>, <<63796, "mapped", <<32769>>>>,
    <<63797, "mapped", <<34310>>>>, <<63798, "mapped", <<34396>>>>,
    <<63799, "mapped", <<36335>>>>, <<63800, "mapped", <<38706>>>>,
    <<63801, "mapped", <<39791>>>>, <<63802, "mapped", <<40442>>>>,
    <<63803, "mapped", <<30860>>>>, <<63804, "mapped", <<31103>>>>,
    <<63805, "mapped", <<32160>>>>, <<63806, "mapped", <<33737>>>>,
    <<63807, "mapped", <<37636>>>>, <<63808, "mapped", <<40575>>>>,
    <<63809, "mapped", <<35542>>>>, <<63810, "mapped", <<22751>>>>,
    <<63811, "mapped", <<24324>>>>, <<63812, "mapped", <<31840>>>>,
    <<63813, "mapped", <<32894>>>>, <<63814, "mapped", <<29282>>>>,
    <<63815, "mapped", <<30922>>>>, <<63816, "mapped", <<36034>>>>,
    <<63817, "mapped", <<38647>>>>, <<63818, "mapped", <<22744>>>>,
    <<63819, "mapped", <<23650>>>>, <<63820, "mapped", <<27155>>>>,
    <<63821, "mapped", <<28122>>>>, <<63822, "mapped", <<28431>>>>,
    <<63823, "mapped", <<32047>>>>, <<63824, "mapped", <<32311>>>>,
    <<63825, "mapped", <<38475>>>>, <<63826, "mapped", <<21202>>>>,
    <<63827, "mapped", <<32907>>>>, <<63828, "mapped", <<20956>>>>,
    <<63829, "mapped", <<20940>>>>, <<63830, "mapped", <<31260>>>>,
    <<63831, "mapped", <<32190>>>>, <<63832, "mapped", <<33777>>>>,
    <<63833, "mapped", <<38517>>>>, <<63834, "mapped", <<35712>>>>,
    <<63835, "mapped", <<25295>>>>, <<63836, "mapped", <<27138>>>>,
    <<63837, "mapped", <<35582>>>>, <<63838, "mapped", <<20025>>>>,
    <<63839, "mapped", <<23527>>>>, <<63840, "mapped", <<24594>>>>,
    <<63841, "mapped", <<29575>>>>, <<63842, "mapped", <<30064>>>>,
    <<63843, "mapped", <<21271>>>>, <<63844, "mapped", <<30971>>>>,
    <<63845, "mapped", <<20415>>>>, <<63846, "mapped", <<24489>>>>,
    <<63847, "mapped", <<19981>>>>, <<63848, "mapped", <<27852>>>>,
    <<63849, "mapped", <<25976>>>>, <<63850, "mapped", <<32034>>>>,
    <<63851, "mapped", <<21443>>>>, <<63852, "mapped", <<22622>>>>,
    <<63853, "mapped", <<30465>>>>, <<63854, "mapped", <<33865>>>>,
    <<63855, "mapped", <<35498>>>>, <<63856, "mapped", <<27578>>>>,
    <<63857, "mapped", <<36784>>>>, <<63858, "mapped", <<27784>>>>,
    <<63859, "mapped", <<25342>>>>, <<63860, "mapped", <<33509>>>>,
    <<63861, "mapped", <<25504>>>>, <<63862, "mapped", <<30053>>>>,
    <<63863, "mapped", <<20142>>>>, <<63864, "mapped", <<20841>>>>,
    <<63865, "mapped", <<20937>>>>, <<63866, "mapped", <<26753>>>>,
    <<63867, "mapped", <<31975>>>>, <<63868, "mapped", <<33391>>>>,
    <<63869, "mapped", <<35538>>>>, <<63870, "mapped", <<37327>>>>,
    <<63871, "mapped", <<21237>>>>, <<63872, "mapped", <<21570>>>>,
    <<63873, "mapped", <<22899>>>>, <<63874, "mapped", <<24300>>>>,
    <<63875, "mapped", <<26053>>>>, <<63876, "mapped", <<28670>>>>,
    <<63877, "mapped", <<31018>>>>, <<63878, "mapped", <<38317>>>>,
    <<63879, "mapped", <<39530>>>>, <<63880, "mapped", <<40599>>>>,
    <<63881, "mapped", <<40654>>>>, <<63882, "mapped", <<21147>>>>,
    <<63883, "mapped", <<26310>>>>, <<63884, "mapped", <<27511>>>>,
    <<63885, "mapped", <<36706>>>>, <<63886, "mapped", <<24180>>>>,
    <<63887, "mapped", <<24976>>>>, <<63888, "mapped", <<25088>>>>,
    <<63889, "mapped", <<25754>>>>, <<63890, "mapped", <<28451>>>>,
    <<63891, "mapped", <<29001>>>>, <<63892, "mapped", <<29833>>>>,
    <<63893, "mapped", <<31178>>>>, <<63894, "mapped", <<32244>>>>,
    <<63895, "mapped", <<32879>>>>, <<63896, "mapped", <<36646>>>>,
    <<63897, "mapped", <<34030>>>>, <<63898, "mapped", <<36899>>>>,
    <<63899, "mapped", <<37706>>>>, <<63900, "mapped", <<21015>>>>,
    <<63901, "mapped", <<21155>>>>, <<63902, "mapped", <<21693>>>>,
    <<63903, "mapped", <<28872>>>>, <<63904, "mapped", <<35010>>>>,
    <<63905, "mapped", <<35498>>>>, <<63906, "mapped", <<24265>>>>,
    <<63907, "mapped", <<24565>>>>, <<63908, "mapped", <<25467>>>>,
    <<63909, "mapped", <<27566>>>>, <<63910, "mapped", <<31806>>>>,
    <<63911, "mapped", <<29557>>>>, <<63912, "mapped", <<20196>>>>,
    <<63913, "mapped", <<22265>>>>, <<63914, "mapped", <<23527>>>>,
    <<63915, "mapped", <<23994>>>>, <<63916, "mapped", <<24604>>>>,
    <<63917, "mapped", <<29618>>>>, <<63918, "mapped", <<29801>>>>,
    <<63919, "mapped", <<32666>>>>, <<63920, "mapped", <<32838>>>>,
    <<63921, "mapped", <<37428>>>>, <<63922, "mapped", <<38646>>>>,
    <<63923, "mapped", <<38728>>>>, <<63924, "mapped", <<38936>>>>,
    <<63925, "mapped", <<20363>>>>, <<63926, "mapped", <<31150>>>>,
    <<63927, "mapped", <<37300>>>>, <<63928, "mapped", <<38584>>>>,
    <<63929, "mapped", <<24801>>>>, <<63930, "mapped", <<20102>>>>,
    <<63931, "mapped", <<20698>>>>, <<63932, "mapped", <<23534>>>>,
    <<63933, "mapped", <<23615>>>>, <<63934, "mapped", <<26009>>>>,
    <<63935, "mapped", <<27138>>>>, <<63936, "mapped", <<29134>>>>,
    <<63937, "mapped", <<30274>>>>, <<63938, "mapped", <<34044>>>>,
    <<63939, "mapped", <<36988>>>>, <<63940, "mapped", <<40845>>>>,
    <<63941, "mapped", <<26248>>>>, <<63942, "mapped", <<38446>>>>,
    <<63943, "mapped", <<21129>>>>, <<63944, "mapped", <<26491>>>>,
    <<63945, "mapped", <<26611>>>>, <<63946, "mapped", <<27969>>>>,
    <<63947, "mapped", <<28316>>>>, <<63948, "mapped", <<29705>>>>,
    <<63949, "mapped", <<30041>>>>, <<63950, "mapped", <<30827>>>>,
    <<63951, "mapped", <<32016>>>>, <<63952, "mapped", <<39006>>>>,
    <<63953, "mapped", <<20845>>>>, <<63954, "mapped", <<25134>>>>,
    <<63955, "mapped", <<38520>>>>, <<63956, "mapped", <<20523>>>>,
    <<63957, "mapped", <<23833>>>>, <<63958, "mapped", <<28138>>>>,
    <<63959, "mapped", <<36650>>>>, <<63960, "mapped", <<24459>>>>,
    <<63961, "mapped", <<24900>>>>, <<63962, "mapped", <<26647>>>>,
    <<63963, "mapped", <<29575>>>>, <<63964, "mapped", <<38534>>>>,
    <<63965, "mapped", <<21033>>>>, <<63966, "mapped", <<21519>>>>,
    <<63967, "mapped", <<23653>>>>, <<63968, "mapped", <<26131>>>>,
    <<63969, "mapped", <<26446>>>>, <<63970, "mapped", <<26792>>>>,
    <<63971, "mapped", <<27877>>>>, <<63972, "mapped", <<29702>>>>,
    <<63973, "mapped", <<30178>>>>, <<63974, "mapped", <<32633>>>>,
    <<63975, "mapped", <<35023>>>>, <<63976, "mapped", <<35041>>>>,
    <<63977, "mapped", <<37324>>>>, <<63978, "mapped", <<38626>>>>,
    <<63979, "mapped", <<21311>>>>, <<63980, "mapped", <<28346>>>>,
    <<63981, "mapped", <<21533>>>>, <<63982, "mapped", <<29136>>>>,
    <<63983, "mapped", <<29848>>>>, <<63984, "mapped", <<34298>>>>,
    <<63985, "mapped", <<38563>>>>, <<63986, "mapped", <<40023>>>>,
    <<63987, "mapped", <<40607>>>>, <<63988, "mapped", <<26519>>>>,
    <<63989, "mapped", <<28107>>>>, <<63990, "mapped", <<33256>>>>,
    <<63991, "mapped", <<31435>>>>, <<63992, "mapped", <<31520>>>>,
    <<63993, "mapped", <<31890>>>>, <<63994, "mapped", <<29376>>>>,
    <<63995, "mapped", <<28825>>>>, <<63996, "mapped", <<35672>>>>,
    <<63997, "mapped", <<20160>>>>, <<63998, "mapped", <<33590>>>>,
    <<63999, "mapped", <<21050>>>>, <<64000, "mapped", <<20999>>>>,
    <<64001, "mapped", <<24230>>>>, <<64002, "mapped", <<25299>>>>,
    <<64003, "mapped", <<31958>>>>, <<64004, "mapped", <<23429>>>>,
    <<64005, "mapped", <<27934>>>>, <<64006, "mapped", <<26292>>>>,
    <<64007, "mapped", <<36667>>>>, <<64008, "mapped", <<34892>>>>,
    <<64009, "mapped", <<38477>>>>, <<64010, "mapped", <<35211>>>>,
    <<64011, "mapped", <<24275>>>>, <<64012, "mapped", <<20800>>>>,
    <<64013, "mapped", <<21952>>>>, <<64014, "valid", <<>>>>, <<64016, "mapped", <<22618>>>>,
    <<64017, "valid", <<>>>>, <<64018, "mapped", <<26228>>>>, <<64019, "valid", <<>>>>,
    <<64021, "mapped", <<20958>>>>, <<64022, "mapped", <<29482>>>>,
    <<64023, "mapped", <<30410>>>>, <<64024, "mapped", <<31036>>>>,
    <<64025, "mapped", <<31070>>>>, <<64026, "mapped", <<31077>>>>,
    <<64027, "mapped", <<31119>>>>, <<64028, "mapped", <<38742>>>>,
    <<64029, "mapped", <<31934>>>>, <<64030, "mapped", <<32701>>>>, <<64031, "valid", <<>>>>,
    <<64032, "mapped", <<34322>>>>, <<64033, "valid", <<>>>>, <<64034, "mapped", <<35576>>>>,
    <<64035, "valid", <<>>>>, <<64037, "mapped", <<36920>>>>, <<64038, "mapped", <<37117>>>>,
    <<64039, "valid", <<>>>>, <<64042, "mapped", <<39151>>>>, <<64043, "mapped", <<39164>>>>,
    <<64044, "mapped", <<39208>>>>, <<64045, "mapped", <<40372>>>>,
    <<64046, "mapped", <<37086>>>>, <<64047, "mapped", <<38583>>>>,
    <<64048, "mapped", <<20398>>>>, <<64049, "mapped", <<20711>>>>,
    <<64050, "mapped", <<20813>>>>, <<64051, "mapped", <<21193>>>>,
    <<64052, "mapped", <<21220>>>>, <<64053, "mapped", <<21329>>>>,
    <<64054, "mapped", <<21917>>>>, <<64055, "mapped", <<22022>>>>,
    <<64056, "mapped", <<22120>>>>, <<64057, "mapped", <<22592>>>>,
    <<64058, "mapped", <<22696>>>>, <<64059, "mapped", <<23652>>>>,
    <<64060, "mapped", <<23662>>>>, <<64061, "mapped", <<24724>>>>,
    <<64062, "mapped", <<24936>>>>, <<64063, "mapped", <<24974>>>>,
    <<64064, "mapped", <<25074>>>>, <<64065, "mapped", <<25935>>>>,
    <<64066, "mapped", <<26082>>>>, <<64067, "mapped", <<26257>>>>,
    <<64068, "mapped", <<26757>>>>, <<64069, "mapped", <<28023>>>>,
    <<64070, "mapped", <<28186>>>>, <<64071, "mapped", <<28450>>>>,
    <<64072, "mapped", <<29038>>>>, <<64073, "mapped", <<29227>>>>,
    <<64074, "mapped", <<29730>>>>, <<64075, "mapped", <<30865>>>>,
    <<64076, "mapped", <<31038>>>>, <<64077, "mapped", <<31049>>>>,
    <<64078, "mapped", <<31048>>>>, <<64079, "mapped", <<31056>>>>,
    <<64080, "mapped", <<31062>>>>, <<64081, "mapped", <<31069>>>>,
    <<64082, "mapped", <<31117>>>>, <<64083, "mapped", <<31118>>>>,
    <<64084, "mapped", <<31296>>>>, <<64085, "mapped", <<31361>>>>,
    <<64086, "mapped", <<31680>>>>, <<64087, "mapped", <<32244>>>>,
    <<64088, "mapped", <<32265>>>>, <<64089, "mapped", <<32321>>>>,
    <<64090, "mapped", <<32626>>>>, <<64091, "mapped", <<32773>>>>,
    <<64092, "mapped", <<33261>>>>, <<64093, "mapped", <<33401>>>>,
    <<64095, "mapped", <<33879>>>>, <<64096, "mapped", <<35088>>>>,
    <<64097, "mapped", <<35222>>>>, <<64098, "mapped", <<35585>>>>,
    <<64099, "mapped", <<35641>>>>, <<64100, "mapped", <<36051>>>>,
    <<64101, "mapped", <<36104>>>>, <<64102, "mapped", <<36790>>>>,
    <<64103, "mapped", <<36920>>>>, <<64104, "mapped", <<38627>>>>,
    <<64105, "mapped", <<38911>>>>, <<64106, "mapped", <<38971>>>>,
    <<64107, "mapped", <<24693>>>>, <<64108, "mapped", <<148206>>>>,
    <<64109, "mapped", <<33304>>>>, <<64110, "disallowed", <<>>>>, <<64112, "mapped", <<20006>>>>,
    <<64113, "mapped", <<20917>>>>, <<64114, "mapped", <<20840>>>>,
    <<64115, "mapped", <<20352>>>>, <<64116, "mapped", <<20805>>>>,
    <<64117, "mapped", <<20864>>>>, <<64118, "mapped", <<21191>>>>,
    <<64119, "mapped", <<21242>>>>, <<64120, "mapped", <<21917>>>>,
    <<64121, "mapped", <<21845>>>>, <<64122, "mapped", <<21913>>>>,
    <<64123, "mapped", <<21986>>>>, <<64124, "mapped", <<22618>>>>,
    <<64125, "mapped", <<22707>>>>, <<64126, "mapped", <<22852>>>>,
    <<64127, "mapped", <<22868>>>>, <<64128, "mapped", <<23138>>>>,
    <<64129, "mapped", <<23336>>>>, <<64130, "mapped", <<24274>>>>,
    <<64131, "mapped", <<24281>>>>, <<64132, "mapped", <<24425>>>>,
    <<64133, "mapped", <<24493>>>>, <<64134, "mapped", <<24792>>>>,
    <<64135, "mapped", <<24910>>>>, <<64136, "mapped", <<24840>>>>,
    <<64137, "mapped", <<24974>>>>, <<64138, "mapped", <<24928>>>>,
    <<64139, "mapped", <<25074>>>>, <<64140, "mapped", <<25140>>>>,
    <<64141, "mapped", <<25540>>>>, <<64142, "mapped", <<25628>>>>,
    <<64143, "mapped", <<25682>>>>, <<64144, "mapped", <<25942>>>>,
    <<64145, "mapped", <<26228>>>>, <<64146, "mapped", <<26391>>>>,
    <<64147, "mapped", <<26395>>>>, <<64148, "mapped", <<26454>>>>,
    <<64149, "mapped", <<27513>>>>, <<64150, "mapped", <<27578>>>>,
    <<64151, "mapped", <<27969>>>>, <<64152, "mapped", <<28379>>>>,
    <<64153, "mapped", <<28363>>>>, <<64154, "mapped", <<28450>>>>,
    <<64155, "mapped", <<28702>>>>, <<64156, "mapped", <<29038>>>>,
    <<64157, "mapped", <<30631>>>>, <<64158, "mapped", <<29237>>>>,
    <<64159, "mapped", <<29359>>>>, <<64160, "mapped", <<29482>>>>,
    <<64161, "mapped", <<29809>>>>, <<64162, "mapped", <<29958>>>>,
    <<64163, "mapped", <<30011>>>>, <<64164, "mapped", <<30237>>>>,
    <<64165, "mapped", <<30239>>>>, <<64166, "mapped", <<30410>>>>,
    <<64167, "mapped", <<30427>>>>, <<64168, "mapped", <<30452>>>>,
    <<64169, "mapped", <<30538>>>>, <<64170, "mapped", <<30528>>>>,
    <<64171, "mapped", <<30924>>>>, <<64172, "mapped", <<31409>>>>,
    <<64173, "mapped", <<31680>>>>, <<64174, "mapped", <<31867>>>>,
    <<64175, "mapped", <<32091>>>>, <<64176, "mapped", <<32244>>>>,
    <<64177, "mapped", <<32574>>>>, <<64178, "mapped", <<32773>>>>,
    <<64179, "mapped", <<33618>>>>, <<64180, "mapped", <<33775>>>>,
    <<64181, "mapped", <<34681>>>>, <<64182, "mapped", <<35137>>>>,
    <<64183, "mapped", <<35206>>>>, <<64184, "mapped", <<35222>>>>,
    <<64185, "mapped", <<35519>>>>, <<64186, "mapped", <<35576>>>>,
    <<64187, "mapped", <<35531>>>>, <<64188, "mapped", <<35585>>>>,
    <<64189, "mapped", <<35582>>>>, <<64190, "mapped", <<35565>>>>,
    <<64191, "mapped", <<35641>>>>, <<64192, "mapped", <<35722>>>>,
    <<64193, "mapped", <<36104>>>>, <<64194, "mapped", <<36664>>>>,
    <<64195, "mapped", <<36978>>>>, <<64196, "mapped", <<37273>>>>,
    <<64197, "mapped", <<37494>>>>, <<64198, "mapped", <<38524>>>>,
    <<64199, "mapped", <<38627>>>>, <<64200, "mapped", <<38742>>>>,
    <<64201, "mapped", <<38875>>>>, <<64202, "mapped", <<38911>>>>,
    <<64203, "mapped", <<38923>>>>, <<64204, "mapped", <<38971>>>>,
    <<64205, "mapped", <<39698>>>>, <<64206, "mapped", <<40860>>>>,
    <<64207, "mapped", <<141386>>>>, <<64208, "mapped", <<141380>>>>,
    <<64209, "mapped", <<144341>>>>, <<64210, "mapped", <<15261>>>>,
    <<64211, "mapped", <<16408>>>>, <<64212, "mapped", <<16441>>>>,
    <<64213, "mapped", <<152137>>>>, <<64214, "mapped", <<154832>>>>,
    <<64215, "mapped", <<163539>>>>, <<64216, "mapped", <<40771>>>>,
    <<64217, "mapped", <<40846>>>>, <<64218, "disallowed", <<>>>>,
    <<64256, "mapped", <<102, 102>>>>, <<64257, "mapped", <<102, 105>>>>,
    <<64258, "mapped", <<102, 108>>>>, <<64259, "mapped", <<102, 102, 105>>>>,
    <<64260, "mapped", <<102, 102, 108>>>>, <<64261, "mapped", <<115, 116>>>>,
    <<64263, "disallowed", <<>>>>, <<64275, "mapped", <<1396, 1398>>>>,
    <<64276, "mapped", <<1396, 1381>>>>, <<64277, "mapped", <<1396, 1387>>>>,
    <<64278, "mapped", <<1406, 1398>>>>, <<64279, "mapped", <<1396, 1389>>>>,
    <<64280, "disallowed", <<>>>>, <<64285, "mapped", <<1497, 1460>>>>, <<64286, "valid", <<>>>>,
    <<64287, "mapped", <<1522, 1463>>>>, <<64288, "mapped", <<1506>>>>,
    <<64289, "mapped", <<1488>>>>, <<64290, "mapped", <<1491>>>>, <<64291, "mapped", <<1492>>>>,
    <<64292, "mapped", <<1499>>>>, <<64293, "mapped", <<1500>>>>, <<64294, "mapped", <<1501>>>>,
    <<64295, "mapped", <<1512>>>>, <<64296, "mapped", <<1514>>>>, <<64297, "mapped", <<43>>>>,
    <<64298, "mapped", <<1513, 1473>>>>, <<64299, "mapped", <<1513, 1474>>>>,
    <<64300, "mapped", <<1513, 1468, 1473>>>>, <<64301, "mapped", <<1513, 1468, 1474>>>>,
    <<64302, "mapped", <<1488, 1463>>>>, <<64303, "mapped", <<1488, 1464>>>>,
    <<64304, "mapped", <<1488, 1468>>>>, <<64305, "mapped", <<1489, 1468>>>>,
    <<64306, "mapped", <<1490, 1468>>>>, <<64307, "mapped", <<1491, 1468>>>>,
    <<64308, "mapped", <<1492, 1468>>>>, <<64309, "mapped", <<1493, 1468>>>>,
    <<64310, "mapped", <<1494, 1468>>>>, <<64311, "disallowed", <<>>>>,
    <<64312, "mapped", <<1496, 1468>>>>, <<64313, "mapped", <<1497, 1468>>>>,
    <<64314, "mapped", <<1498, 1468>>>>, <<64315, "mapped", <<1499, 1468>>>>,
    <<64316, "mapped", <<1500, 1468>>>>, <<64317, "disallowed", <<>>>>,
    <<64318, "mapped", <<1502, 1468>>>>, <<64319, "disallowed", <<>>>>,
    <<64320, "mapped", <<1504, 1468>>>>, <<64321, "mapped", <<1505, 1468>>>>,
    <<64322, "disallowed", <<>>>>, <<64323, "mapped", <<1507, 1468>>>>,
    <<64324, "mapped", <<1508, 1468>>>>, <<64325, "disallowed", <<>>>>,
    <<64326, "mapped", <<1510, 1468>>>>, <<64327, "mapped", <<1511, 1468>>>>,
    <<64328, "mapped", <<1512, 1468>>>>, <<64329, "mapped", <<1513, 1468>>>>,
    <<64330, "mapped", <<1514, 1468>>>>, <<64331, "mapped", <<1493, 1465>>>>,
    <<64332, "mapped", <<1489, 1471>>>>, <<64333, "mapped", <<1499, 1471>>>>,
    <<64334, "mapped", <<1508, 1471>>>>, <<64335, "mapped", <<1488, 1500>>>>,
    <<64336, "mapped", <<1649>>>>, <<64338, "mapped", <<1659>>>>, <<64342, "mapped", <<1662>>>>,
    <<64346, "mapped", <<1664>>>>, <<64350, "mapped", <<1658>>>>, <<64354, "mapped", <<1663>>>>,
    <<64358, "mapped", <<1657>>>>, <<64362, "mapped", <<1700>>>>, <<64366, "mapped", <<1702>>>>,
    <<64370, "mapped", <<1668>>>>, <<64374, "mapped", <<1667>>>>, <<64378, "mapped", <<1670>>>>,
    <<64382, "mapped", <<1671>>>>, <<64386, "mapped", <<1677>>>>, <<64388, "mapped", <<1676>>>>,
    <<64390, "mapped", <<1678>>>>, <<64392, "mapped", <<1672>>>>, <<64394, "mapped", <<1688>>>>,
    <<64396, "mapped", <<1681>>>>, <<64398, "mapped", <<1705>>>>, <<64402, "mapped", <<1711>>>>,
    <<64406, "mapped", <<1715>>>>, <<64410, "mapped", <<1713>>>>, <<64414, "mapped", <<1722>>>>,
    <<64416, "mapped", <<1723>>>>, <<64420, "mapped", <<1728>>>>, <<64422, "mapped", <<1729>>>>,
    <<64426, "mapped", <<1726>>>>, <<64430, "mapped", <<1746>>>>, <<64432, "mapped", <<1747>>>>,
    <<64434, "valid", <<>>>>, <<64451, "disallowed", <<>>>>, <<64467, "mapped", <<1709>>>>,
    <<64471, "mapped", <<1735>>>>, <<64473, "mapped", <<1734>>>>, <<64475, "mapped", <<1736>>>>,
    <<64477, "mapped", <<1735, 1652>>>>, <<64478, "mapped", <<1739>>>>,
    <<64480, "mapped", <<1733>>>>, <<64482, "mapped", <<1737>>>>, <<64484, "mapped", <<1744>>>>,
    <<64488, "mapped", <<1609>>>>, <<64490, "mapped", <<1574, 1575>>>>,
    <<64492, "mapped", <<1574, 1749>>>>, <<64494, "mapped", <<1574, 1608>>>>,
    <<64496, "mapped", <<1574, 1735>>>>, <<64498, "mapped", <<1574, 1734>>>>,
    <<64500, "mapped", <<1574, 1736>>>>, <<64502, "mapped", <<1574, 1744>>>>,
    <<64505, "mapped", <<1574, 1609>>>>, <<64508, "mapped", <<1740>>>>,
    <<64512, "mapped", <<1574, 1580>>>>, <<64513, "mapped", <<1574, 1581>>>>,
    <<64514, "mapped", <<1574, 1605>>>>, <<64515, "mapped", <<1574, 1609>>>>,
    <<64516, "mapped", <<1574, 1610>>>>, <<64517, "mapped", <<1576, 1580>>>>,
    <<64518, "mapped", <<1576, 1581>>>>, <<64519, "mapped", <<1576, 1582>>>>,
    <<64520, "mapped", <<1576, 1605>>>>, <<64521, "mapped", <<1576, 1609>>>>,
    <<64522, "mapped", <<1576, 1610>>>>, <<64523, "mapped", <<1578, 1580>>>>,
    <<64524, "mapped", <<1578, 1581>>>>, <<64525, "mapped", <<1578, 1582>>>>,
    <<64526, "mapped", <<1578, 1605>>>>, <<64527, "mapped", <<1578, 1609>>>>,
    <<64528, "mapped", <<1578, 1610>>>>, <<64529, "mapped", <<1579, 1580>>>>,
    <<64530, "mapped", <<1579, 1605>>>>, <<64531, "mapped", <<1579, 1609>>>>,
    <<64532, "mapped", <<1579, 1610>>>>, <<64533, "mapped", <<1580, 1581>>>>,
    <<64534, "mapped", <<1580, 1605>>>>, <<64535, "mapped", <<1581, 1580>>>>,
    <<64536, "mapped", <<1581, 1605>>>>, <<64537, "mapped", <<1582, 1580>>>>,
    <<64538, "mapped", <<1582, 1581>>>>, <<64539, "mapped", <<1582, 1605>>>>,
    <<64540, "mapped", <<1587, 1580>>>>, <<64541, "mapped", <<1587, 1581>>>>,
    <<64542, "mapped", <<1587, 1582>>>>, <<64543, "mapped", <<1587, 1605>>>>,
    <<64544, "mapped", <<1589, 1581>>>>, <<64545, "mapped", <<1589, 1605>>>>,
    <<64546, "mapped", <<1590, 1580>>>>, <<64547, "mapped", <<1590, 1581>>>>,
    <<64548, "mapped", <<1590, 1582>>>>, <<64549, "mapped", <<1590, 1605>>>>,
    <<64550, "mapped", <<1591, 1581>>>>, <<64551, "mapped", <<1591, 1605>>>>,
    <<64552, "mapped", <<1592, 1605>>>>, <<64553, "mapped", <<1593, 1580>>>>,
    <<64554, "mapped", <<1593, 1605>>>>, <<64555, "mapped", <<1594, 1580>>>>,
    <<64556, "mapped", <<1594, 1605>>>>, <<64557, "mapped", <<1601, 1580>>>>,
    <<64558, "mapped", <<1601, 1581>>>>, <<64559, "mapped", <<1601, 1582>>>>,
    <<64560, "mapped", <<1601, 1605>>>>, <<64561, "mapped", <<1601, 1609>>>>,
    <<64562, "mapped", <<1601, 1610>>>>, <<64563, "mapped", <<1602, 1581>>>>,
    <<64564, "mapped", <<1602, 1605>>>>, <<64565, "mapped", <<1602, 1609>>>>,
    <<64566, "mapped", <<1602, 1610>>>>, <<64567, "mapped", <<1603, 1575>>>>,
    <<64568, "mapped", <<1603, 1580>>>>, <<64569, "mapped", <<1603, 1581>>>>,
    <<64570, "mapped", <<1603, 1582>>>>, <<64571, "mapped", <<1603, 1604>>>>,
    <<64572, "mapped", <<1603, 1605>>>>, <<64573, "mapped", <<1603, 1609>>>>,
    <<64574, "mapped", <<1603, 1610>>>>, <<64575, "mapped", <<1604, 1580>>>>,
    <<64576, "mapped", <<1604, 1581>>>>, <<64577, "mapped", <<1604, 1582>>>>,
    <<64578, "mapped", <<1604, 1605>>>>, <<64579, "mapped", <<1604, 1609>>>>,
    <<64580, "mapped", <<1604, 1610>>>>, <<64581, "mapped", <<1605, 1580>>>>,
    <<64582, "mapped", <<1605, 1581>>>>, <<64583, "mapped", <<1605, 1582>>>>,
    <<64584, "mapped", <<1605, 1605>>>>, <<64585, "mapped", <<1605, 1609>>>>,
    <<64586, "mapped", <<1605, 1610>>>>, <<64587, "mapped", <<1606, 1580>>>>,
    <<64588, "mapped", <<1606, 1581>>>>, <<64589, "mapped", <<1606, 1582>>>>,
    <<64590, "mapped", <<1606, 1605>>>>, <<64591, "mapped", <<1606, 1609>>>>,
    <<64592, "mapped", <<1606, 1610>>>>, <<64593, "mapped", <<1607, 1580>>>>,
    <<64594, "mapped", <<1607, 1605>>>>, <<64595, "mapped", <<1607, 1609>>>>,
    <<64596, "mapped", <<1607, 1610>>>>, <<64597, "mapped", <<1610, 1580>>>>,
    <<64598, "mapped", <<1610, 1581>>>>, <<64599, "mapped", <<1610, 1582>>>>,
    <<64600, "mapped", <<1610, 1605>>>>, <<64601, "mapped", <<1610, 1609>>>>,
    <<64602, "mapped", <<1610, 1610>>>>, <<64603, "mapped", <<1584, 1648>>>>,
    <<64604, "mapped", <<1585, 1648>>>>, <<64605, "mapped", <<1609, 1648>>>>,
    <<64606, "mapped", <<32, 1612, 1617>>>>, <<64607, "mapped", <<32, 1613, 1617>>>>,
    <<64608, "mapped", <<32, 1614, 1617>>>>, <<64609, "mapped", <<32, 1615, 1617>>>>,
    <<64610, "mapped", <<32, 1616, 1617>>>>, <<64611, "mapped", <<32, 1617, 1648>>>>,
    <<64612, "mapped", <<1574, 1585>>>>, <<64613, "mapped", <<1574, 1586>>>>,
    <<64614, "mapped", <<1574, 1605>>>>, <<64615, "mapped", <<1574, 1606>>>>,
    <<64616, "mapped", <<1574, 1609>>>>, <<64617, "mapped", <<1574, 1610>>>>,
    <<64618, "mapped", <<1576, 1585>>>>, <<64619, "mapped", <<1576, 1586>>>>,
    <<64620, "mapped", <<1576, 1605>>>>, <<64621, "mapped", <<1576, 1606>>>>,
    <<64622, "mapped", <<1576, 1609>>>>, <<64623, "mapped", <<1576, 1610>>>>,
    <<64624, "mapped", <<1578, 1585>>>>, <<64625, "mapped", <<1578, 1586>>>>,
    <<64626, "mapped", <<1578, 1605>>>>, <<64627, "mapped", <<1578, 1606>>>>,
    <<64628, "mapped", <<1578, 1609>>>>, <<64629, "mapped", <<1578, 1610>>>>,
    <<64630, "mapped", <<1579, 1585>>>>, <<64631, "mapped", <<1579, 1586>>>>,
    <<64632, "mapped", <<1579, 1605>>>>, <<64633, "mapped", <<1579, 1606>>>>,
    <<64634, "mapped", <<1579, 1609>>>>, <<64635, "mapped", <<1579, 1610>>>>,
    <<64636, "mapped", <<1601, 1609>>>>, <<64637, "mapped", <<1601, 1610>>>>,
    <<64638, "mapped", <<1602, 1609>>>>, <<64639, "mapped", <<1602, 1610>>>>,
    <<64640, "mapped", <<1603, 1575>>>>, <<64641, "mapped", <<1603, 1604>>>>,
    <<64642, "mapped", <<1603, 1605>>>>, <<64643, "mapped", <<1603, 1609>>>>,
    <<64644, "mapped", <<1603, 1610>>>>, <<64645, "mapped", <<1604, 1605>>>>,
    <<64646, "mapped", <<1604, 1609>>>>, <<64647, "mapped", <<1604, 1610>>>>,
    <<64648, "mapped", <<1605, 1575>>>>, <<64649, "mapped", <<1605, 1605>>>>,
    <<64650, "mapped", <<1606, 1585>>>>, <<64651, "mapped", <<1606, 1586>>>>,
    <<64652, "mapped", <<1606, 1605>>>>, <<64653, "mapped", <<1606, 1606>>>>,
    <<64654, "mapped", <<1606, 1609>>>>, <<64655, "mapped", <<1606, 1610>>>>,
    <<64656, "mapped", <<1609, 1648>>>>, <<64657, "mapped", <<1610, 1585>>>>,
    <<64658, "mapped", <<1610, 1586>>>>, <<64659, "mapped", <<1610, 1605>>>>,
    <<64660, "mapped", <<1610, 1606>>>>, <<64661, "mapped", <<1610, 1609>>>>,
    <<64662, "mapped", <<1610, 1610>>>>, <<64663, "mapped", <<1574, 1580>>>>,
    <<64664, "mapped", <<1574, 1581>>>>, <<64665, "mapped", <<1574, 1582>>>>,
    <<64666, "mapped", <<1574, 1605>>>>, <<64667, "mapped", <<1574, 1607>>>>,
    <<64668, "mapped", <<1576, 1580>>>>, <<64669, "mapped", <<1576, 1581>>>>,
    <<64670, "mapped", <<1576, 1582>>>>, <<64671, "mapped", <<1576, 1605>>>>,
    <<64672, "mapped", <<1576, 1607>>>>, <<64673, "mapped", <<1578, 1580>>>>,
    <<64674, "mapped", <<1578, 1581>>>>, <<64675, "mapped", <<1578, 1582>>>>,
    <<64676, "mapped", <<1578, 1605>>>>, <<64677, "mapped", <<1578, 1607>>>>,
    <<64678, "mapped", <<1579, 1605>>>>, <<64679, "mapped", <<1580, 1581>>>>,
    <<64680, "mapped", <<1580, 1605>>>>, <<64681, "mapped", <<1581, 1580>>>>,
    <<64682, "mapped", <<1581, 1605>>>>, <<64683, "mapped", <<1582, 1580>>>>,
    <<64684, "mapped", <<1582, 1605>>>>, <<64685, "mapped", <<1587, 1580>>>>,
    <<64686, "mapped", <<1587, 1581>>>>, <<64687, "mapped", <<1587, 1582>>>>,
    <<64688, "mapped", <<1587, 1605>>>>, <<64689, "mapped", <<1589, 1581>>>>,
    <<64690, "mapped", <<1589, 1582>>>>, <<64691, "mapped", <<1589, 1605>>>>,
    <<64692, "mapped", <<1590, 1580>>>>, <<64693, "mapped", <<1590, 1581>>>>,
    <<64694, "mapped", <<1590, 1582>>>>, <<64695, "mapped", <<1590, 1605>>>>,
    <<64696, "mapped", <<1591, 1581>>>>, <<64697, "mapped", <<1592, 1605>>>>,
    <<64698, "mapped", <<1593, 1580>>>>, <<64699, "mapped", <<1593, 1605>>>>,
    <<64700, "mapped", <<1594, 1580>>>>, <<64701, "mapped", <<1594, 1605>>>>,
    <<64702, "mapped", <<1601, 1580>>>>, <<64703, "mapped", <<1601, 1581>>>>,
    <<64704, "mapped", <<1601, 1582>>>>, <<64705, "mapped", <<1601, 1605>>>>,
    <<64706, "mapped", <<1602, 1581>>>>, <<64707, "mapped", <<1602, 1605>>>>,
    <<64708, "mapped", <<1603, 1580>>>>, <<64709, "mapped", <<1603, 1581>>>>,
    <<64710, "mapped", <<1603, 1582>>>>, <<64711, "mapped", <<1603, 1604>>>>,
    <<64712, "mapped", <<1603, 1605>>>>, <<64713, "mapped", <<1604, 1580>>>>,
    <<64714, "mapped", <<1604, 1581>>>>, <<64715, "mapped", <<1604, 1582>>>>,
    <<64716, "mapped", <<1604, 1605>>>>, <<64717, "mapped", <<1604, 1607>>>>,
    <<64718, "mapped", <<1605, 1580>>>>, <<64719, "mapped", <<1605, 1581>>>>,
    <<64720, "mapped", <<1605, 1582>>>>, <<64721, "mapped", <<1605, 1605>>>>,
    <<64722, "mapped", <<1606, 1580>>>>, <<64723, "mapped", <<1606, 1581>>>>,
    <<64724, "mapped", <<1606, 1582>>>>, <<64725, "mapped", <<1606, 1605>>>>,
    <<64726, "mapped", <<1606, 1607>>>>, <<64727, "mapped", <<1607, 1580>>>>,
    <<64728, "mapped", <<1607, 1605>>>>, <<64729, "mapped", <<1607, 1648>>>>,
    <<64730, "mapped", <<1610, 1580>>>>, <<64731, "mapped", <<1610, 1581>>>>,
    <<64732, "mapped", <<1610, 1582>>>>, <<64733, "mapped", <<1610, 1605>>>>,
    <<64734, "mapped", <<1610, 1607>>>>, <<64735, "mapped", <<1574, 1605>>>>,
    <<64736, "mapped", <<1574, 1607>>>>, <<64737, "mapped", <<1576, 1605>>>>,
    <<64738, "mapped", <<1576, 1607>>>>, <<64739, "mapped", <<1578, 1605>>>>,
    <<64740, "mapped", <<1578, 1607>>>>, <<64741, "mapped", <<1579, 1605>>>>,
    <<64742, "mapped", <<1579, 1607>>>>, <<64743, "mapped", <<1587, 1605>>>>,
    <<64744, "mapped", <<1587, 1607>>>>, <<64745, "mapped", <<1588, 1605>>>>,
    <<64746, "mapped", <<1588, 1607>>>>, <<64747, "mapped", <<1603, 1604>>>>,
    <<64748, "mapped", <<1603, 1605>>>>, <<64749, "mapped", <<1604, 1605>>>>,
    <<64750, "mapped", <<1606, 1605>>>>, <<64751, "mapped", <<1606, 1607>>>>,
    <<64752, "mapped", <<1610, 1605>>>>, <<64753, "mapped", <<1610, 1607>>>>,
    <<64754, "mapped", <<1600, 1614, 1617>>>>, <<64755, "mapped", <<1600, 1615, 1617>>>>,
    <<64756, "mapped", <<1600, 1616, 1617>>>>, <<64757, "mapped", <<1591, 1609>>>>,
    <<64758, "mapped", <<1591, 1610>>>>, <<64759, "mapped", <<1593, 1609>>>>,
    <<64760, "mapped", <<1593, 1610>>>>, <<64761, "mapped", <<1594, 1609>>>>,
    <<64762, "mapped", <<1594, 1610>>>>, <<64763, "mapped", <<1587, 1609>>>>,
    <<64764, "mapped", <<1587, 1610>>>>, <<64765, "mapped", <<1588, 1609>>>>,
    <<64766, "mapped", <<1588, 1610>>>>, <<64767, "mapped", <<1581, 1609>>>>,
    <<64768, "mapped", <<1581, 1610>>>>, <<64769, "mapped", <<1580, 1609>>>>,
    <<64770, "mapped", <<1580, 1610>>>>, <<64771, "mapped", <<1582, 1609>>>>,
    <<64772, "mapped", <<1582, 1610>>>>, <<64773, "mapped", <<1589, 1609>>>>,
    <<64774, "mapped", <<1589, 1610>>>>, <<64775, "mapped", <<1590, 1609>>>>,
    <<64776, "mapped", <<1590, 1610>>>>, <<64777, "mapped", <<1588, 1580>>>>,
    <<64778, "mapped", <<1588, 1581>>>>, <<64779, "mapped", <<1588, 1582>>>>,
    <<64780, "mapped", <<1588, 1605>>>>, <<64781, "mapped", <<1588, 1585>>>>,
    <<64782, "mapped", <<1587, 1585>>>>, <<64783, "mapped", <<1589, 1585>>>>,
    <<64784, "mapped", <<1590, 1585>>>>, <<64785, "mapped", <<1591, 1609>>>>,
    <<64786, "mapped", <<1591, 1610>>>>, <<64787, "mapped", <<1593, 1609>>>>,
    <<64788, "mapped", <<1593, 1610>>>>, <<64789, "mapped", <<1594, 1609>>>>,
    <<64790, "mapped", <<1594, 1610>>>>, <<64791, "mapped", <<1587, 1609>>>>,
    <<64792, "mapped", <<1587, 1610>>>>, <<64793, "mapped", <<1588, 1609>>>>,
    <<64794, "mapped", <<1588, 1610>>>>, <<64795, "mapped", <<1581, 1609>>>>,
    <<64796, "mapped", <<1581, 1610>>>>, <<64797, "mapped", <<1580, 1609>>>>,
    <<64798, "mapped", <<1580, 1610>>>>, <<64799, "mapped", <<1582, 1609>>>>,
    <<64800, "mapped", <<1582, 1610>>>>, <<64801, "mapped", <<1589, 1609>>>>,
    <<64802, "mapped", <<1589, 1610>>>>, <<64803, "mapped", <<1590, 1609>>>>,
    <<64804, "mapped", <<1590, 1610>>>>, <<64805, "mapped", <<1588, 1580>>>>,
    <<64806, "mapped", <<1588, 1581>>>>, <<64807, "mapped", <<1588, 1582>>>>,
    <<64808, "mapped", <<1588, 1605>>>>, <<64809, "mapped", <<1588, 1585>>>>,
    <<64810, "mapped", <<1587, 1585>>>>, <<64811, "mapped", <<1589, 1585>>>>,
    <<64812, "mapped", <<1590, 1585>>>>, <<64813, "mapped", <<1588, 1580>>>>,
    <<64814, "mapped", <<1588, 1581>>>>, <<64815, "mapped", <<1588, 1582>>>>,
    <<64816, "mapped", <<1588, 1605>>>>, <<64817, "mapped", <<1587, 1607>>>>,
    <<64818, "mapped", <<1588, 1607>>>>, <<64819, "mapped", <<1591, 1605>>>>,
    <<64820, "mapped", <<1587, 1580>>>>, <<64821, "mapped", <<1587, 1581>>>>,
    <<64822, "mapped", <<1587, 1582>>>>, <<64823, "mapped", <<1588, 1580>>>>,
    <<64824, "mapped", <<1588, 1581>>>>, <<64825, "mapped", <<1588, 1582>>>>,
    <<64826, "mapped", <<1591, 1605>>>>, <<64827, "mapped", <<1592, 1605>>>>,
    <<64828, "mapped", <<1575, 1611>>>>, <<64830, "valid", <<>>>>,
    <<64848, "mapped", <<1578, 1580, 1605>>>>, <<64849, "mapped", <<1578, 1581, 1580>>>>,
    <<64851, "mapped", <<1578, 1581, 1605>>>>, <<64852, "mapped", <<1578, 1582, 1605>>>>,
    <<64853, "mapped", <<1578, 1605, 1580>>>>, <<64854, "mapped", <<1578, 1605, 1581>>>>,
    <<64855, "mapped", <<1578, 1605, 1582>>>>, <<64856, "mapped", <<1580, 1605, 1581>>>>,
    <<64858, "mapped", <<1581, 1605, 1610>>>>, <<64859, "mapped", <<1581, 1605, 1609>>>>,
    <<64860, "mapped", <<1587, 1581, 1580>>>>, <<64861, "mapped", <<1587, 1580, 1581>>>>,
    <<64862, "mapped", <<1587, 1580, 1609>>>>, <<64863, "mapped", <<1587, 1605, 1581>>>>,
    <<64865, "mapped", <<1587, 1605, 1580>>>>, <<64866, "mapped", <<1587, 1605, 1605>>>>,
    <<64868, "mapped", <<1589, 1581, 1581>>>>, <<64870, "mapped", <<1589, 1605, 1605>>>>,
    <<64871, "mapped", <<1588, 1581, 1605>>>>, <<64873, "mapped", <<1588, 1580, 1610>>>>,
    <<64874, "mapped", <<1588, 1605, 1582>>>>, <<64876, "mapped", <<1588, 1605, 1605>>>>,
    <<64878, "mapped", <<1590, 1581, 1609>>>>, <<64879, "mapped", <<1590, 1582, 1605>>>>,
    <<64881, "mapped", <<1591, 1605, 1581>>>>, <<64883, "mapped", <<1591, 1605, 1605>>>>,
    <<64884, "mapped", <<1591, 1605, 1610>>>>, <<64885, "mapped", <<1593, 1580, 1605>>>>,
    <<64886, "mapped", <<1593, 1605, 1605>>>>, <<64888, "mapped", <<1593, 1605, 1609>>>>,
    <<64889, "mapped", <<1594, 1605, 1605>>>>, <<64890, "mapped", <<1594, 1605, 1610>>>>,
    <<64891, "mapped", <<1594, 1605, 1609>>>>, <<64892, "mapped", <<1601, 1582, 1605>>>>,
    <<64894, "mapped", <<1602, 1605, 1581>>>>, <<64895, "mapped", <<1602, 1605, 1605>>>>,
    <<64896, "mapped", <<1604, 1581, 1605>>>>, <<64897, "mapped", <<1604, 1581, 1610>>>>,
    <<64898, "mapped", <<1604, 1581, 1609>>>>, <<64899, "mapped", <<1604, 1580, 1580>>>>,
    <<64901, "mapped", <<1604, 1582, 1605>>>>, <<64903, "mapped", <<1604, 1605, 1581>>>>,
    <<64905, "mapped", <<1605, 1581, 1580>>>>, <<64906, "mapped", <<1605, 1581, 1605>>>>,
    <<64907, "mapped", <<1605, 1581, 1610>>>>, <<64908, "mapped", <<1605, 1580, 1581>>>>,
    <<64909, "mapped", <<1605, 1580, 1605>>>>, <<64910, "mapped", <<1605, 1582, 1580>>>>,
    <<64911, "mapped", <<1605, 1582, 1605>>>>, <<64912, "disallowed", <<>>>>,
    <<64914, "mapped", <<1605, 1580, 1582>>>>, <<64915, "mapped", <<1607, 1605, 1580>>>>,
    <<64916, "mapped", <<1607, 1605, 1605>>>>, <<64917, "mapped", <<1606, 1581, 1605>>>>,
    <<64918, "mapped", <<1606, 1581, 1609>>>>, <<64919, "mapped", <<1606, 1580, 1605>>>>,
    <<64921, "mapped", <<1606, 1580, 1609>>>>, <<64922, "mapped", <<1606, 1605, 1610>>>>,
    <<64923, "mapped", <<1606, 1605, 1609>>>>, <<64924, "mapped", <<1610, 1605, 1605>>>>,
    <<64926, "mapped", <<1576, 1582, 1610>>>>, <<64927, "mapped", <<1578, 1580, 1610>>>>,
    <<64928, "mapped", <<1578, 1580, 1609>>>>, <<64929, "mapped", <<1578, 1582, 1610>>>>,
    <<64930, "mapped", <<1578, 1582, 1609>>>>, <<64931, "mapped", <<1578, 1605, 1610>>>>,
    <<64932, "mapped", <<1578, 1605, 1609>>>>, <<64933, "mapped", <<1580, 1605, 1610>>>>,
    <<64934, "mapped", <<1580, 1581, 1609>>>>, <<64935, "mapped", <<1580, 1605, 1609>>>>,
    <<64936, "mapped", <<1587, 1582, 1609>>>>, <<64937, "mapped", <<1589, 1581, 1610>>>>,
    <<64938, "mapped", <<1588, 1581, 1610>>>>, <<64939, "mapped", <<1590, 1581, 1610>>>>,
    <<64940, "mapped", <<1604, 1580, 1610>>>>, <<64941, "mapped", <<1604, 1605, 1610>>>>,
    <<64942, "mapped", <<1610, 1581, 1610>>>>, <<64943, "mapped", <<1610, 1580, 1610>>>>,
    <<64944, "mapped", <<1610, 1605, 1610>>>>, <<64945, "mapped", <<1605, 1605, 1610>>>>,
    <<64946, "mapped", <<1602, 1605, 1610>>>>, <<64947, "mapped", <<1606, 1581, 1610>>>>,
    <<64948, "mapped", <<1602, 1605, 1581>>>>, <<64949, "mapped", <<1604, 1581, 1605>>>>,
    <<64950, "mapped", <<1593, 1605, 1610>>>>, <<64951, "mapped", <<1603, 1605, 1610>>>>,
    <<64952, "mapped", <<1606, 1580, 1581>>>>, <<64953, "mapped", <<1605, 1582, 1610>>>>,
    <<64954, "mapped", <<1604, 1580, 1605>>>>, <<64955, "mapped", <<1603, 1605, 1605>>>>,
    <<64956, "mapped", <<1604, 1580, 1605>>>>, <<64957, "mapped", <<1606, 1580, 1581>>>>,
    <<64958, "mapped", <<1580, 1581, 1610>>>>, <<64959, "mapped", <<1581, 1580, 1610>>>>,
    <<64960, "mapped", <<1605, 1580, 1610>>>>, <<64961, "mapped", <<1601, 1605, 1610>>>>,
    <<64962, "mapped", <<1576, 1581, 1610>>>>, <<64963, "mapped", <<1603, 1605, 1605>>>>,
    <<64964, "mapped", <<1593, 1580, 1605>>>>, <<64965, "mapped", <<1589, 1605, 1605>>>>,
    <<64966, "mapped", <<1587, 1582, 1610>>>>, <<64967, "mapped", <<1606, 1580, 1610>>>>,
    <<64968, "disallowed", <<>>>>, <<64975, "valid", <<>>>>, <<64976, "disallowed", <<>>>>,
    <<65008, "mapped", <<1589, 1604, 1746>>>>, <<65009, "mapped", <<1602, 1604, 1746>>>>,
    <<65010, "mapped", <<1575, 1604, 1604, 1607>>>>,
    <<65011, "mapped", <<1575, 1603, 1576, 1585>>>>,
    <<65012, "mapped", <<1605, 1581, 1605, 1583>>>>,
    <<65013, "mapped", <<1589, 1604, 1593, 1605>>>>,
    <<65014, "mapped", <<1585, 1587, 1608, 1604>>>>,
    <<65015, "mapped", <<1593, 1604, 1610, 1607>>>>,
    <<65016, "mapped", <<1608, 1587, 1604, 1605>>>>, <<65017, "mapped", <<1589, 1604, 1609>>>>,
    <<65018, "mapped", <<1589, 1604, 1609, 32, 1575, 1604, 1604, 1607, 32, 1593, 1604, 1610, 1607, 32, 1608, 1587, 1604, 1605>>>>,
    <<65019, "mapped", <<1580, 1604, 32, 1580, 1604, 1575, 1604, 1607>>>>,
    <<65020, "mapped", <<1585, 1740, 1575, 1604>>>>, <<65021, "valid", <<>>>>,
    <<65024, "ignored", <<>>>>, <<65040, "mapped", <<44>>>>, <<65041, "mapped", <<12289>>>>,
    <<65042, "disallowed", <<>>>>, <<65043, "mapped", <<58>>>>, <<65044, "mapped", <<59>>>>,
    <<65045, "mapped", <<33>>>>, <<65046, "mapped", <<63>>>>, <<65047, "mapped", <<12310>>>>,
    <<65048, "mapped", <<12311>>>>, <<65049, "disallowed", <<>>>>, <<65056, "valid", <<>>>>,
    <<65072, "disallowed", <<>>>>, <<65073, "mapped", <<8212>>>>, <<65074, "mapped", <<8211>>>>,
    <<65075, "mapped", <<95>>>>, <<65077, "mapped", <<40>>>>, <<65078, "mapped", <<41>>>>,
    <<65079, "mapped", <<123>>>>, <<65080, "mapped", <<125>>>>, <<65081, "mapped", <<12308>>>>,
    <<65082, "mapped", <<12309>>>>, <<65083, "mapped", <<12304>>>>,
    <<65084, "mapped", <<12305>>>>, <<65085, "mapped", <<12298>>>>,
    <<65086, "mapped", <<12299>>>>, <<65087, "mapped", <<12296>>>>,
    <<65088, "mapped", <<12297>>>>, <<65089, "mapped", <<12300>>>>,
    <<65090, "mapped", <<12301>>>>, <<65091, "mapped", <<12302>>>>,
    <<65092, "mapped", <<12303>>>>, <<65093, "valid", <<>>>>, <<65095, "mapped", <<91>>>>,
    <<65096, "mapped", <<93>>>>, <<65097, "mapped", <<32, 773>>>>, <<65101, "mapped", <<95>>>>,
    <<65104, "mapped", <<44>>>>, <<65105, "mapped", <<12289>>>>, <<65106, "disallowed", <<>>>>,
    <<65108, "mapped", <<59>>>>, <<65109, "mapped", <<58>>>>, <<65110, "mapped", <<63>>>>,
    <<65111, "mapped", <<33>>>>, <<65112, "mapped", <<8212>>>>, <<65113, "mapped", <<40>>>>,
    <<65114, "mapped", <<41>>>>, <<65115, "mapped", <<123>>>>, <<65116, "mapped", <<125>>>>,
    <<65117, "mapped", <<12308>>>>, <<65118, "mapped", <<12309>>>>, <<65119, "mapped", <<35>>>>,
    <<65120, "mapped", <<38>>>>, <<65121, "mapped", <<42>>>>, <<65122, "mapped", <<43>>>>,
    <<65123, "mapped", <<45>>>>, <<65124, "mapped", <<60>>>>, <<65125, "mapped", <<62>>>>,
    <<65126, "mapped", <<61>>>>, <<65127, "disallowed", <<>>>>, <<65128, "mapped", <<92>>>>,
    <<65129, "mapped", <<36>>>>, <<65130, "mapped", <<37>>>>, <<65131, "mapped", <<64>>>>,
    <<65132, "disallowed", <<>>>>, <<65136, "mapped", <<32, 1611>>>>,
    <<65137, "mapped", <<1600, 1611>>>>, <<65138, "mapped", <<32, 1612>>>>,
    <<65139, "valid", <<>>>>, <<65140, "mapped", <<32, 1613>>>>, <<65141, "disallowed", <<>>>>,
    <<65142, "mapped", <<32, 1614>>>>, <<65143, "mapped", <<1600, 1614>>>>,
    <<65144, "mapped", <<32, 1615>>>>, <<65145, "mapped", <<1600, 1615>>>>,
    <<65146, "mapped", <<32, 1616>>>>, <<65147, "mapped", <<1600, 1616>>>>,
    <<65148, "mapped", <<32, 1617>>>>, <<65149, "mapped", <<1600, 1617>>>>,
    <<65150, "mapped", <<32, 1618>>>>, <<65151, "mapped", <<1600, 1618>>>>,
    <<65152, "mapped", <<1569>>>>, <<65153, "mapped", <<1570>>>>, <<65155, "mapped", <<1571>>>>,
    <<65157, "mapped", <<1572>>>>, <<65159, "mapped", <<1573>>>>, <<65161, "mapped", <<1574>>>>,
    <<65165, "mapped", <<1575>>>>, <<65167, "mapped", <<1576>>>>, <<65171, "mapped", <<1577>>>>,
    <<65173, "mapped", <<1578>>>>, <<65177, "mapped", <<1579>>>>, <<65181, "mapped", <<1580>>>>,
    <<65185, "mapped", <<1581>>>>, <<65189, "mapped", <<1582>>>>, <<65193, "mapped", <<1583>>>>,
    <<65195, "mapped", <<1584>>>>, <<65197, "mapped", <<1585>>>>, <<65199, "mapped", <<1586>>>>,
    <<65201, "mapped", <<1587>>>>, <<65205, "mapped", <<1588>>>>, <<65209, "mapped", <<1589>>>>,
    <<65213, "mapped", <<1590>>>>, <<65217, "mapped", <<1591>>>>, <<65221, "mapped", <<1592>>>>,
    <<65225, "mapped", <<1593>>>>, <<65229, "mapped", <<1594>>>>, <<65233, "mapped", <<1601>>>>,
    <<65237, "mapped", <<1602>>>>, <<65241, "mapped", <<1603>>>>, <<65245, "mapped", <<1604>>>>,
    <<65249, "mapped", <<1605>>>>, <<65253, "mapped", <<1606>>>>, <<65257, "mapped", <<1607>>>>,
    <<65261, "mapped", <<1608>>>>, <<65263, "mapped", <<1609>>>>, <<65265, "mapped", <<1610>>>>,
    <<65269, "mapped", <<1604, 1570>>>>, <<65271, "mapped", <<1604, 1571>>>>,
    <<65273, "mapped", <<1604, 1573>>>>, <<65275, "mapped", <<1604, 1575>>>>,
    <<65277, "disallowed", <<>>>>, <<65279, "ignored", <<>>>>, <<65280, "disallowed", <<>>>>,
    <<65281, "mapped", <<33>>>>, <<65282, "mapped", <<34>>>>, <<65283, "mapped", <<35>>>>,
    <<65284, "mapped", <<36>>>>, <<65285, "mapped", <<37>>>>, <<65286, "mapped", <<38>>>>,
    <<65287, "mapped", <<39>>>>, <<65288, "mapped", <<40>>>>, <<65289, "mapped", <<41>>>>,
    <<65290, "mapped", <<42>>>>, <<65291, "mapped", <<43>>>>, <<65292, "mapped", <<44>>>>,
    <<65293, "mapped", <<45>>>>, <<65294, "mapped", <<46>>>>, <<65295, "mapped", <<47>>>>,
    <<65296, "mapped", <<48>>>>, <<65297, "mapped", <<49>>>>, <<65298, "mapped", <<50>>>>,
    <<65299, "mapped", <<51>>>>, <<65300, "mapped", <<52>>>>, <<65301, "mapped", <<53>>>>,
    <<65302, "mapped", <<54>>>>, <<65303, "mapped", <<55>>>>, <<65304, "mapped", <<56>>>>,
    <<65305, "mapped", <<57>>>>, <<65306, "mapped", <<58>>>>, <<65307, "mapped", <<59>>>>,
    <<65308, "mapped", <<60>>>>, <<65309, "mapped", <<61>>>>, <<65310, "mapped", <<62>>>>,
    <<65311, "mapped", <<63>>>>, <<65312, "mapped", <<64>>>>, <<65313, "mapped", <<97>>>>,
    <<65314, "mapped", <<98>>>>, <<65315, "mapped", <<99>>>>, <<65316, "mapped", <<100>>>>,
    <<65317, "mapped", <<101>>>>, <<65318, "mapped", <<102>>>>, <<65319, "mapped", <<103>>>>,
    <<65320, "mapped", <<104>>>>, <<65321, "mapped", <<105>>>>, <<65322, "mapped", <<106>>>>,
    <<65323, "mapped", <<107>>>>, <<65324, "mapped", <<108>>>>, <<65325, "mapped", <<109>>>>,
    <<65326, "mapped", <<110>>>>, <<65327, "mapped", <<111>>>>, <<65328, "mapped", <<112>>>>,
    <<65329, "mapped", <<113>>>>, <<65330, "mapped", <<114>>>>, <<65331, "mapped", <<115>>>>,
    <<65332, "mapped", <<116>>>>, <<65333, "mapped", <<117>>>>, <<65334, "mapped", <<118>>>>,
    <<65335, "mapped", <<119>>>>, <<65336, "mapped", <<120>>>>, <<65337, "mapped", <<121>>>>,
    <<65338, "mapped", <<122>>>>, <<65339, "mapped", <<91>>>>, <<65340, "mapped", <<92>>>>,
    <<65341, "mapped", <<93>>>>, <<65342, "mapped", <<94>>>>, <<65343, "mapped", <<95>>>>,
    <<65344, "mapped", <<96>>>>, <<65345, "mapped", <<97>>>>, <<65346, "mapped", <<98>>>>,
    <<65347, "mapped", <<99>>>>, <<65348, "mapped", <<100>>>>, <<65349, "mapped", <<101>>>>,
    <<65350, "mapped", <<102>>>>, <<65351, "mapped", <<103>>>>, <<65352, "mapped", <<104>>>>,
    <<65353, "mapped", <<105>>>>, <<65354, "mapped", <<106>>>>, <<65355, "mapped", <<107>>>>,
    <<65356, "mapped", <<108>>>>, <<65357, "mapped", <<109>>>>, <<65358, "mapped", <<110>>>>,
    <<65359, "mapped", <<111>>>>, <<65360, "mapped", <<112>>>>, <<65361, "mapped", <<113>>>>,
    <<65362, "mapped", <<114>>>>, <<65363, "mapped", <<115>>>>, <<65364, "mapped", <<116>>>>,
    <<65365, "mapped", <<117>>>>, <<65366, "mapped", <<118>>>>, <<65367, "mapped", <<119>>>>,
    <<65368, "mapped", <<120>>>>, <<65369, "mapped", <<121>>>>, <<65370, "mapped", <<122>>>>,
    <<65371, "mapped", <<123>>>>, <<65372, "mapped", <<124>>>>, <<65373, "mapped", <<125>>>>,
    <<65374, "mapped", <<126>>>>, <<65375, "mapped", <<10629>>>>, <<65376, "mapped", <<10630>>>>,
    <<65377, "mapped", <<46>>>>, <<65378, "mapped", <<12300>>>>, <<65379, "mapped", <<12301>>>>,
    <<65380, "mapped", <<12289>>>>, <<65381, "mapped", <<12539>>>>,
    <<65382, "mapped", <<12530>>>>, <<65383, "mapped", <<12449>>>>,
    <<65384, "mapped", <<12451>>>>, <<65385, "mapped", <<12453>>>>,
    <<65386, "mapped", <<12455>>>>, <<65387, "mapped", <<12457>>>>,
    <<65388, "mapped", <<12515>>>>, <<65389, "mapped", <<12517>>>>,
    <<65390, "mapped", <<12519>>>>, <<65391, "mapped", <<12483>>>>,
    <<65392, "mapped", <<12540>>>>, <<65393, "mapped", <<12450>>>>,
    <<65394, "mapped", <<12452>>>>, <<65395, "mapped", <<12454>>>>,
    <<65396, "mapped", <<12456>>>>, <<65397, "mapped", <<12458>>>>,
    <<65398, "mapped", <<12459>>>>, <<65399, "mapped", <<12461>>>>,
    <<65400, "mapped", <<12463>>>>, <<65401, "mapped", <<12465>>>>,
    <<65402, "mapped", <<12467>>>>, <<65403, "mapped", <<12469>>>>,
    <<65404, "mapped", <<12471>>>>, <<65405, "mapped", <<12473>>>>,
    <<65406, "mapped", <<12475>>>>, <<65407, "mapped", <<12477>>>>,
    <<65408, "mapped", <<12479>>>>, <<65409, "mapped", <<12481>>>>,
    <<65410, "mapped", <<12484>>>>, <<65411, "mapped", <<12486>>>>,
    <<65412, "mapped", <<12488>>>>, <<65413, "mapped", <<12490>>>>,
    <<65414, "mapped", <<12491>>>>, <<65415, "mapped", <<12492>>>>,
    <<65416, "mapped", <<12493>>>>, <<65417, "mapped", <<12494>>>>,
    <<65418, "mapped", <<12495>>>>, <<65419, "mapped", <<12498>>>>,
    <<65420, "mapped", <<12501>>>>, <<65421, "mapped", <<12504>>>>,
    <<65422, "mapped", <<12507>>>>, <<65423, "mapped", <<12510>>>>,
    <<65424, "mapped", <<12511>>>>, <<65425, "mapped", <<12512>>>>,
    <<65426, "mapped", <<12513>>>>, <<65427, "mapped", <<12514>>>>,
    <<65428, "mapped", <<12516>>>>, <<65429, "mapped", <<12518>>>>,
    <<65430, "mapped", <<12520>>>>, <<65431, "mapped", <<12521>>>>,
    <<65432, "mapped", <<12522>>>>, <<65433, "mapped", <<12523>>>>,
    <<65434, "mapped", <<12524>>>>, <<65435, "mapped", <<12525>>>>,
    <<65436, "mapped", <<12527>>>>, <<65437, "mapped", <<12531>>>>,
    <<65438, "mapped", <<12441>>>>, <<65439, "mapped", <<12442>>>>, <<65440, "disallowed", <<>>>>,
    <<65441, "mapped", <<4352>>>>, <<65442, "mapped", <<4353>>>>, <<65443, "mapped", <<4522>>>>,
    <<65444, "mapped", <<4354>>>>, <<65445, "mapped", <<4524>>>>, <<65446, "mapped", <<4525>>>>,
    <<65447, "mapped", <<4355>>>>, <<65448, "mapped", <<4356>>>>, <<65449, "mapped", <<4357>>>>,
    <<65450, "mapped", <<4528>>>>, <<65451, "mapped", <<4529>>>>, <<65452, "mapped", <<4530>>>>,
    <<65453, "mapped", <<4531>>>>, <<65454, "mapped", <<4532>>>>, <<65455, "mapped", <<4533>>>>,
    <<65456, "mapped", <<4378>>>>, <<65457, "mapped", <<4358>>>>, <<65458, "mapped", <<4359>>>>,
    <<65459, "mapped", <<4360>>>>, <<65460, "mapped", <<4385>>>>, <<65461, "mapped", <<4361>>>>,
    <<65462, "mapped", <<4362>>>>, <<65463, "mapped", <<4363>>>>, <<65464, "mapped", <<4364>>>>,
    <<65465, "mapped", <<4365>>>>, <<65466, "mapped", <<4366>>>>, <<65467, "mapped", <<4367>>>>,
    <<65468, "mapped", <<4368>>>>, <<65469, "mapped", <<4369>>>>, <<65470, "mapped", <<4370>>>>,
    <<65471, "disallowed", <<>>>>, <<65474, "mapped", <<4449>>>>, <<65475, "mapped", <<4450>>>>,
    <<65476, "mapped", <<4451>>>>, <<65477, "mapped", <<4452>>>>, <<65478, "mapped", <<4453>>>>,
    <<65479, "mapped", <<4454>>>>, <<65480, "disallowed", <<>>>>, <<65482, "mapped", <<4455>>>>,
    <<65483, "mapped", <<4456>>>>, <<65484, "mapped", <<4457>>>>, <<65485, "mapped", <<4458>>>>,
    <<65486, "mapped", <<4459>>>>, <<65487, "mapped", <<4460>>>>, <<65488, "disallowed", <<>>>>,
    <<65490, "mapped", <<4461>>>>, <<65491, "mapped", <<4462>>>>, <<65492, "mapped", <<4463>>>>,
    <<65493, "mapped", <<4464>>>>, <<65494, "mapped", <<4465>>>>, <<65495, "mapped", <<4466>>>>,
    <<65496, "disallowed", <<>>>>, <<65498, "mapped", <<4467>>>>, <<65499, "mapped", <<4468>>>>,
    <<65500, "mapped", <<4469>>>>, <<65501, "disallowed", <<>>>>, <<65504, "mapped", <<162>>>>,
    <<65505, "mapped", <<163>>>>, <<65506, "mapped", <<172>>>>, <<65507, "mapped", <<32, 772>>>>,
    <<65508, "mapped", <<166>>>>, <<65509, "mapped", <<165>>>>, <<65510, "mapped", <<8361>>>>,
    <<65511, "disallowed", <<>>>>, <<65512, "mapped", <<9474>>>>, <<65513, "mapped", <<8592>>>>,
    <<65514, "mapped", <<8593>>>>, <<65515, "mapped", <<8594>>>>, <<65516, "mapped", <<8595>>>>,
    <<65517, "mapped", <<9632>>>>, <<65518, "mapped", <<9675>>>>, <<65519, "disallowed", <<>>>>,
    <<65536, "valid", <<>>>>, <<65548, "disallowed", <<>>>>, <<65549, "valid", <<>>>>,
    <<65575, "disallowed", <<>>>>, <<65576, "valid", <<>>>>, <<65595, "disallowed", <<>>>>,
    <<65596, "valid", <<>>>>, <<65598, "disallowed", <<>>>>, <<65599, "valid", <<>>>>,
    <<65614, "disallowed", <<>>>>, <<65616, "valid", <<>>>>, <<65630, "disallowed", <<>>>>,
    <<65664, "valid", <<>>>>, <<65787, "disallowed", <<>>>>, <<65792, "valid", <<>>>>,
    <<65795, "disallowed", <<>>>>, <<65799, "valid", <<>>>>, <<65844, "disallowed", <<>>>>,
    <<65847, "valid", <<>>>>, <<65935, "disallowed", <<>>>>, <<65936, "valid", <<>>>>,
    <<65949, "disallowed", <<>>>>, <<65952, "valid", <<>>>>, <<65953, "disallowed", <<>>>>,
    <<66000, "valid", <<>>>>, <<66046, "disallowed", <<>>>>, <<66176, "valid", <<>>>>,
    <<66205, "disallowed", <<>>>>, <<66208, "valid", <<>>>>, <<66257, "disallowed", <<>>>>,
    <<66272, "valid", <<>>>>, <<66300, "disallowed", <<>>>>, <<66304, "valid", <<>>>>,
    <<66340, "disallowed", <<>>>>, <<66349, "valid", <<>>>>, <<66379, "disallowed", <<>>>>,
    <<66384, "valid", <<>>>>, <<66427, "disallowed", <<>>>>, <<66432, "valid", <<>>>>,
    <<66462, "disallowed", <<>>>>, <<66463, "valid", <<>>>>, <<66500, "disallowed", <<>>>>,
    <<66504, "valid", <<>>>>, <<66518, "disallowed", <<>>>>, <<66560, "mapped", <<66600>>>>,
    <<66561, "mapped", <<66601>>>>, <<66562, "mapped", <<66602>>>>,
    <<66563, "mapped", <<66603>>>>, <<66564, "mapped", <<66604>>>>,
    <<66565, "mapped", <<66605>>>>, <<66566, "mapped", <<66606>>>>,
    <<66567, "mapped", <<66607>>>>, <<66568, "mapped", <<66608>>>>,
    <<66569, "mapped", <<66609>>>>, <<66570, "mapped", <<66610>>>>,
    <<66571, "mapped", <<66611>>>>, <<66572, "mapped", <<66612>>>>,
    <<66573, "mapped", <<66613>>>>, <<66574, "mapped", <<66614>>>>,
    <<66575, "mapped", <<66615>>>>, <<66576, "mapped", <<66616>>>>,
    <<66577, "mapped", <<66617>>>>, <<66578, "mapped", <<66618>>>>,
    <<66579, "mapped", <<66619>>>>, <<66580, "mapped", <<66620>>>>,
    <<66581, "mapped", <<66621>>>>, <<66582, "mapped", <<66622>>>>,
    <<66583, "mapped", <<66623>>>>, <<66584, "mapped", <<66624>>>>,
    <<66585, "mapped", <<66625>>>>, <<66586, "mapped", <<66626>>>>,
    <<66587, "mapped", <<66627>>>>, <<66588, "mapped", <<66628>>>>,
    <<66589, "mapped", <<66629>>>>, <<66590, "mapped", <<66630>>>>,
    <<66591, "mapped", <<66631>>>>, <<66592, "mapped", <<66632>>>>,
    <<66593, "mapped", <<66633>>>>, <<66594, "mapped", <<66634>>>>,
    <<66595, "mapped", <<66635>>>>, <<66596, "mapped", <<66636>>>>,
    <<66597, "mapped", <<66637>>>>, <<66598, "mapped", <<66638>>>>,
    <<66599, "mapped", <<66639>>>>, <<66600, "valid", <<>>>>, <<66718, "disallowed", <<>>>>,
    <<66720, "valid", <<>>>>, <<66730, "disallowed", <<>>>>, <<66736, "mapped", <<66776>>>>,
    <<66737, "mapped", <<66777>>>>, <<66738, "mapped", <<66778>>>>,
    <<66739, "mapped", <<66779>>>>, <<66740, "mapped", <<66780>>>>,
    <<66741, "mapped", <<66781>>>>, <<66742, "mapped", <<66782>>>>,
    <<66743, "mapped", <<66783>>>>, <<66744, "mapped", <<66784>>>>,
    <<66745, "mapped", <<66785>>>>, <<66746, "mapped", <<66786>>>>,
    <<66747, "mapped", <<66787>>>>, <<66748, "mapped", <<66788>>>>,
    <<66749, "mapped", <<66789>>>>, <<66750, "mapped", <<66790>>>>,
    <<66751, "mapped", <<66791>>>>, <<66752, "mapped", <<66792>>>>,
    <<66753, "mapped", <<66793>>>>, <<66754, "mapped", <<66794>>>>,
    <<66755, "mapped", <<66795>>>>, <<66756, "mapped", <<66796>>>>,
    <<66757, "mapped", <<66797>>>>, <<66758, "mapped", <<66798>>>>,
    <<66759, "mapped", <<66799>>>>, <<66760, "mapped", <<66800>>>>,
    <<66761, "mapped", <<66801>>>>, <<66762, "mapped", <<66802>>>>,
    <<66763, "mapped", <<66803>>>>, <<66764, "mapped", <<66804>>>>,
    <<66765, "mapped", <<66805>>>>, <<66766, "mapped", <<66806>>>>,
    <<66767, "mapped", <<66807>>>>, <<66768, "mapped", <<66808>>>>,
    <<66769, "mapped", <<66809>>>>, <<66770, "mapped", <<66810>>>>,
    <<66771, "mapped", <<66811>>>>, <<66772, "disallowed", <<>>>>, <<66776, "valid", <<>>>>,
    <<66812, "disallowed", <<>>>>, <<66816, "valid", <<>>>>, <<66856, "disallowed", <<>>>>,
    <<66864, "valid", <<>>>>, <<66916, "disallowed", <<>>>>, <<66927, "valid", <<>>>>,
    <<66928, "mapped", <<66967>>>>, <<66929, "mapped", <<66968>>>>,
    <<66930, "mapped", <<66969>>>>, <<66931, "mapped", <<66970>>>>,
    <<66932, "mapped", <<66971>>>>, <<66933, "mapped", <<66972>>>>,
    <<66934, "mapped", <<66973>>>>, <<66935, "mapped", <<66974>>>>,
    <<66936, "mapped", <<66975>>>>, <<66937, "mapped", <<66976>>>>,
    <<66938, "mapped", <<66977>>>>, <<66939, "disallowed", <<>>>>, <<66940, "mapped", <<66979>>>>,
    <<66941, "mapped", <<66980>>>>, <<66942, "mapped", <<66981>>>>,
    <<66943, "mapped", <<66982>>>>, <<66944, "mapped", <<66983>>>>,
    <<66945, "mapped", <<66984>>>>, <<66946, "mapped", <<66985>>>>,
    <<66947, "mapped", <<66986>>>>, <<66948, "mapped", <<66987>>>>,
    <<66949, "mapped", <<66988>>>>, <<66950, "mapped", <<66989>>>>,
    <<66951, "mapped", <<66990>>>>, <<66952, "mapped", <<66991>>>>,
    <<66953, "mapped", <<66992>>>>, <<66954, "mapped", <<66993>>>>, <<66955, "disallowed", <<>>>>,
    <<66956, "mapped", <<66995>>>>, <<66957, "mapped", <<66996>>>>,
    <<66958, "mapped", <<66997>>>>, <<66959, "mapped", <<66998>>>>,
    <<66960, "mapped", <<66999>>>>, <<66961, "mapped", <<67000>>>>,
    <<66962, "mapped", <<67001>>>>, <<66963, "disallowed", <<>>>>, <<66964, "mapped", <<67003>>>>,
    <<66965, "mapped", <<67004>>>>, <<66966, "disallowed", <<>>>>, <<66967, "valid", <<>>>>,
    <<66978, "disallowed", <<>>>>, <<66979, "valid", <<>>>>, <<66994, "disallowed", <<>>>>,
    <<66995, "valid", <<>>>>, <<67002, "disallowed", <<>>>>, <<67003, "valid", <<>>>>,
    <<67005, "disallowed", <<>>>>, <<67072, "valid", <<>>>>, <<67383, "disallowed", <<>>>>,
    <<67392, "valid", <<>>>>, <<67414, "disallowed", <<>>>>, <<67424, "valid", <<>>>>,
    <<67432, "disallowed", <<>>>>, <<67456, "valid", <<>>>>, <<67457, "mapped", <<720>>>>,
    <<67458, "mapped", <<721>>>>, <<67459, "mapped", <<230>>>>, <<67460, "mapped", <<665>>>>,
    <<67461, "mapped", <<595>>>>, <<67462, "disallowed", <<>>>>, <<67463, "mapped", <<675>>>>,
    <<67464, "mapped", <<43878>>>>, <<67465, "mapped", <<677>>>>, <<67466, "mapped", <<676>>>>,
    <<67467, "mapped", <<598>>>>, <<67468, "mapped", <<599>>>>, <<67469, "mapped", <<7569>>>>,
    <<67470, "mapped", <<600>>>>, <<67471, "mapped", <<606>>>>, <<67472, "mapped", <<681>>>>,
    <<67473, "mapped", <<612>>>>, <<67474, "mapped", <<610>>>>, <<67475, "mapped", <<608>>>>,
    <<67476, "mapped", <<667>>>>, <<67477, "mapped", <<295>>>>, <<67478, "mapped", <<668>>>>,
    <<67479, "mapped", <<615>>>>, <<67480, "mapped", <<644>>>>, <<67481, "mapped", <<682>>>>,
    <<67482, "mapped", <<683>>>>, <<67483, "mapped", <<620>>>>, <<67484, "mapped", <<122628>>>>,
    <<67485, "mapped", <<42894>>>>, <<67486, "mapped", <<622>>>>, <<67487, "mapped", <<122629>>>>,
    <<67488, "mapped", <<654>>>>, <<67489, "mapped", <<122630>>>>, <<67490, "mapped", <<248>>>>,
    <<67491, "mapped", <<630>>>>, <<67492, "mapped", <<631>>>>, <<67493, "mapped", <<113>>>>,
    <<67494, "mapped", <<634>>>>, <<67495, "mapped", <<122632>>>>, <<67496, "mapped", <<637>>>>,
    <<67497, "mapped", <<638>>>>, <<67498, "mapped", <<640>>>>, <<67499, "mapped", <<680>>>>,
    <<67500, "mapped", <<678>>>>, <<67501, "mapped", <<43879>>>>, <<67502, "mapped", <<679>>>>,
    <<67503, "mapped", <<648>>>>, <<67504, "mapped", <<11377>>>>, <<67505, "disallowed", <<>>>>,
    <<67506, "mapped", <<655>>>>, <<67507, "mapped", <<673>>>>, <<67508, "mapped", <<674>>>>,
    <<67509, "mapped", <<664>>>>, <<67510, "mapped", <<448>>>>, <<67511, "mapped", <<449>>>>,
    <<67512, "mapped", <<450>>>>, <<67513, "mapped", <<122634>>>>,
    <<67514, "mapped", <<122654>>>>, <<67515, "disallowed", <<>>>>, <<67584, "valid", <<>>>>,
    <<67590, "disallowed", <<>>>>, <<67592, "valid", <<>>>>, <<67593, "disallowed", <<>>>>,
    <<67594, "valid", <<>>>>, <<67638, "disallowed", <<>>>>, <<67639, "valid", <<>>>>,
    <<67641, "disallowed", <<>>>>, <<67644, "valid", <<>>>>, <<67645, "disallowed", <<>>>>,
    <<67647, "valid", <<>>>>, <<67670, "disallowed", <<>>>>, <<67671, "valid", <<>>>>,
    <<67743, "disallowed", <<>>>>, <<67751, "valid", <<>>>>, <<67760, "disallowed", <<>>>>,
    <<67808, "valid", <<>>>>, <<67827, "disallowed", <<>>>>, <<67828, "valid", <<>>>>,
    <<67830, "disallowed", <<>>>>, <<67835, "valid", <<>>>>, <<67868, "disallowed", <<>>>>,
    <<67871, "valid", <<>>>>, <<67898, "disallowed", <<>>>>, <<67903, "valid", <<>>>>,
    <<67904, "disallowed", <<>>>>, <<67968, "valid", <<>>>>, <<68024, "disallowed", <<>>>>,
    <<68028, "valid", <<>>>>, <<68048, "disallowed", <<>>>>, <<68050, "valid", <<>>>>,
    <<68100, "disallowed", <<>>>>, <<68101, "valid", <<>>>>, <<68103, "disallowed", <<>>>>,
    <<68108, "valid", <<>>>>, <<68116, "disallowed", <<>>>>, <<68117, "valid", <<>>>>,
    <<68120, "disallowed", <<>>>>, <<68121, "valid", <<>>>>, <<68150, "disallowed", <<>>>>,
    <<68152, "valid", <<>>>>, <<68155, "disallowed", <<>>>>, <<68159, "valid", <<>>>>,
    <<68169, "disallowed", <<>>>>, <<68176, "valid", <<>>>>, <<68185, "disallowed", <<>>>>,
    <<68192, "valid", <<>>>>, <<68256, "disallowed", <<>>>>, <<68288, "valid", <<>>>>,
    <<68327, "disallowed", <<>>>>, <<68331, "valid", <<>>>>, <<68343, "disallowed", <<>>>>,
    <<68352, "valid", <<>>>>, <<68406, "disallowed", <<>>>>, <<68409, "valid", <<>>>>,
    <<68438, "disallowed", <<>>>>, <<68440, "valid", <<>>>>, <<68467, "disallowed", <<>>>>,
    <<68472, "valid", <<>>>>, <<68498, "disallowed", <<>>>>, <<68505, "valid", <<>>>>,
    <<68509, "disallowed", <<>>>>, <<68521, "valid", <<>>>>, <<68528, "disallowed", <<>>>>,
    <<68608, "valid", <<>>>>, <<68681, "disallowed", <<>>>>, <<68736, "mapped", <<68800>>>>,
    <<68737, "mapped", <<68801>>>>, <<68738, "mapped", <<68802>>>>,
    <<68739, "mapped", <<68803>>>>, <<68740, "mapped", <<68804>>>>,
    <<68741, "mapped", <<68805>>>>, <<68742, "mapped", <<68806>>>>,
    <<68743, "mapped", <<68807>>>>, <<68744, "mapped", <<68808>>>>,
    <<68745, "mapped", <<68809>>>>, <<68746, "mapped", <<68810>>>>,
    <<68747, "mapped", <<68811>>>>, <<68748, "mapped", <<68812>>>>,
    <<68749, "mapped", <<68813>>>>, <<68750, "mapped", <<68814>>>>,
    <<68751, "mapped", <<68815>>>>, <<68752, "mapped", <<68816>>>>,
    <<68753, "mapped", <<68817>>>>, <<68754, "mapped", <<68818>>>>,
    <<68755, "mapped", <<68819>>>>, <<68756, "mapped", <<68820>>>>,
    <<68757, "mapped", <<68821>>>>, <<68758, "mapped", <<68822>>>>,
    <<68759, "mapped", <<68823>>>>, <<68760, "mapped", <<68824>>>>,
    <<68761, "mapped", <<68825>>>>, <<68762, "mapped", <<68826>>>>,
    <<68763, "mapped", <<68827>>>>, <<68764, "mapped", <<68828>>>>,
    <<68765, "mapped", <<68829>>>>, <<68766, "mapped", <<68830>>>>,
    <<68767, "mapped", <<68831>>>>, <<68768, "mapped", <<68832>>>>,
    <<68769, "mapped", <<68833>>>>, <<68770, "mapped", <<68834>>>>,
    <<68771, "mapped", <<68835>>>>, <<68772, "mapped", <<68836>>>>,
    <<68773, "mapped", <<68837>>>>, <<68774, "mapped", <<68838>>>>,
    <<68775, "mapped", <<68839>>>>, <<68776, "mapped", <<68840>>>>,
    <<68777, "mapped", <<68841>>>>, <<68778, "mapped", <<68842>>>>,
    <<68779, "mapped", <<68843>>>>, <<68780, "mapped", <<68844>>>>,
    <<68781, "mapped", <<68845>>>>, <<68782, "mapped", <<68846>>>>,
    <<68783, "mapped", <<68847>>>>, <<68784, "mapped", <<68848>>>>,
    <<68785, "mapped", <<68849>>>>, <<68786, "mapped", <<68850>>>>, <<68787, "disallowed", <<>>>>,
    <<68800, "valid", <<>>>>, <<68851, "disallowed", <<>>>>, <<68858, "valid", <<>>>>,
    <<68904, "disallowed", <<>>>>, <<68912, "valid", <<>>>>, <<68922, "disallowed", <<>>>>,
    <<69216, "valid", <<>>>>, <<69247, "disallowed", <<>>>>, <<69248, "valid", <<>>>>,
    <<69290, "disallowed", <<>>>>, <<69291, "valid", <<>>>>, <<69294, "disallowed", <<>>>>,
    <<69296, "valid", <<>>>>, <<69298, "disallowed", <<>>>>, <<69373, "valid", <<>>>>,
    <<69416, "disallowed", <<>>>>, <<69424, "valid", <<>>>>, <<69466, "disallowed", <<>>>>,
    <<69488, "valid", <<>>>>, <<69514, "disallowed", <<>>>>, <<69552, "valid", <<>>>>,
    <<69580, "disallowed", <<>>>>, <<69600, "valid", <<>>>>, <<69623, "disallowed", <<>>>>,
    <<69632, "valid", <<>>>>, <<69710, "disallowed", <<>>>>, <<69714, "valid", <<>>>>,
    <<69750, "disallowed", <<>>>>, <<69759, "valid", <<>>>>, <<69821, "disallowed", <<>>>>,
    <<69822, "valid", <<>>>>, <<69827, "disallowed", <<>>>>, <<69840, "valid", <<>>>>,
    <<69865, "disallowed", <<>>>>, <<69872, "valid", <<>>>>, <<69882, "disallowed", <<>>>>,
    <<69888, "valid", <<>>>>, <<69941, "disallowed", <<>>>>, <<69942, "valid", <<>>>>,
    <<69960, "disallowed", <<>>>>, <<69968, "valid", <<>>>>, <<70007, "disallowed", <<>>>>,
    <<70016, "valid", <<>>>>, <<70112, "disallowed", <<>>>>, <<70113, "valid", <<>>>>,
    <<70133, "disallowed", <<>>>>, <<70144, "valid", <<>>>>, <<70162, "disallowed", <<>>>>,
    <<70163, "valid", <<>>>>, <<70210, "disallowed", <<>>>>, <<70272, "valid", <<>>>>,
    <<70279, "disallowed", <<>>>>, <<70280, "valid", <<>>>>, <<70281, "disallowed", <<>>>>,
    <<70282, "valid", <<>>>>, <<70286, "disallowed", <<>>>>, <<70287, "valid", <<>>>>,
    <<70302, "disallowed", <<>>>>, <<70303, "valid", <<>>>>, <<70314, "disallowed", <<>>>>,
    <<70320, "valid", <<>>>>, <<70379, "disallowed", <<>>>>, <<70384, "valid", <<>>>>,
    <<70394, "disallowed", <<>>>>, <<70400, "valid", <<>>>>, <<70404, "disallowed", <<>>>>,
    <<70405, "valid", <<>>>>, <<70413, "disallowed", <<>>>>, <<70415, "valid", <<>>>>,
    <<70417, "disallowed", <<>>>>, <<70419, "valid", <<>>>>, <<70441, "disallowed", <<>>>>,
    <<70442, "valid", <<>>>>, <<70449, "disallowed", <<>>>>, <<70450, "valid", <<>>>>,
    <<70452, "disallowed", <<>>>>, <<70453, "valid", <<>>>>, <<70458, "disallowed", <<>>>>,
    <<70459, "valid", <<>>>>, <<70469, "disallowed", <<>>>>, <<70471, "valid", <<>>>>,
    <<70473, "disallowed", <<>>>>, <<70475, "valid", <<>>>>, <<70478, "disallowed", <<>>>>,
    <<70480, "valid", <<>>>>, <<70481, "disallowed", <<>>>>, <<70487, "valid", <<>>>>,
    <<70488, "disallowed", <<>>>>, <<70493, "valid", <<>>>>, <<70500, "disallowed", <<>>>>,
    <<70502, "valid", <<>>>>, <<70509, "disallowed", <<>>>>, <<70512, "valid", <<>>>>,
    <<70517, "disallowed", <<>>>>, <<70656, "valid", <<>>>>, <<70748, "disallowed", <<>>>>,
    <<70749, "valid", <<>>>>, <<70754, "disallowed", <<>>>>, <<70784, "valid", <<>>>>,
    <<70856, "disallowed", <<>>>>, <<70864, "valid", <<>>>>, <<70874, "disallowed", <<>>>>,
    <<71040, "valid", <<>>>>, <<71094, "disallowed", <<>>>>, <<71096, "valid", <<>>>>,
    <<71134, "disallowed", <<>>>>, <<71168, "valid", <<>>>>, <<71237, "disallowed", <<>>>>,
    <<71248, "valid", <<>>>>, <<71258, "disallowed", <<>>>>, <<71264, "valid", <<>>>>,
    <<71277, "disallowed", <<>>>>, <<71296, "valid", <<>>>>, <<71354, "disallowed", <<>>>>,
    <<71360, "valid", <<>>>>, <<71370, "disallowed", <<>>>>, <<71424, "valid", <<>>>>,
    <<71451, "disallowed", <<>>>>, <<71453, "valid", <<>>>>, <<71468, "disallowed", <<>>>>,
    <<71472, "valid", <<>>>>, <<71495, "disallowed", <<>>>>, <<71680, "valid", <<>>>>,
    <<71740, "disallowed", <<>>>>, <<71840, "mapped", <<71872>>>>, <<71841, "mapped", <<71873>>>>,
    <<71842, "mapped", <<71874>>>>, <<71843, "mapped", <<71875>>>>,
    <<71844, "mapped", <<71876>>>>, <<71845, "mapped", <<71877>>>>,
    <<71846, "mapped", <<71878>>>>, <<71847, "mapped", <<71879>>>>,
    <<71848, "mapped", <<71880>>>>, <<71849, "mapped", <<71881>>>>,
    <<71850, "mapped", <<71882>>>>, <<71851, "mapped", <<71883>>>>,
    <<71852, "mapped", <<71884>>>>, <<71853, "mapped", <<71885>>>>,
    <<71854, "mapped", <<71886>>>>, <<71855, "mapped", <<71887>>>>,
    <<71856, "mapped", <<71888>>>>, <<71857, "mapped", <<71889>>>>,
    <<71858, "mapped", <<71890>>>>, <<71859, "mapped", <<71891>>>>,
    <<71860, "mapped", <<71892>>>>, <<71861, "mapped", <<71893>>>>,
    <<71862, "mapped", <<71894>>>>, <<71863, "mapped", <<71895>>>>,
    <<71864, "mapped", <<71896>>>>, <<71865, "mapped", <<71897>>>>,
    <<71866, "mapped", <<71898>>>>, <<71867, "mapped", <<71899>>>>,
    <<71868, "mapped", <<71900>>>>, <<71869, "mapped", <<71901>>>>,
    <<71870, "mapped", <<71902>>>>, <<71871, "mapped", <<71903>>>>, <<71872, "valid", <<>>>>,
    <<71923, "disallowed", <<>>>>, <<71935, "valid", <<>>>>, <<71943, "disallowed", <<>>>>,
    <<71945, "valid", <<>>>>, <<71946, "disallowed", <<>>>>, <<71948, "valid", <<>>>>,
    <<71956, "disallowed", <<>>>>, <<71957, "valid", <<>>>>, <<71959, "disallowed", <<>>>>,
    <<71960, "valid", <<>>>>, <<71990, "disallowed", <<>>>>, <<71991, "valid", <<>>>>,
    <<71993, "disallowed", <<>>>>, <<71995, "valid", <<>>>>, <<72007, "disallowed", <<>>>>,
    <<72016, "valid", <<>>>>, <<72026, "disallowed", <<>>>>, <<72096, "valid", <<>>>>,
    <<72104, "disallowed", <<>>>>, <<72106, "valid", <<>>>>, <<72152, "disallowed", <<>>>>,
    <<72154, "valid", <<>>>>, <<72165, "disallowed", <<>>>>, <<72192, "valid", <<>>>>,
    <<72264, "disallowed", <<>>>>, <<72272, "valid", <<>>>>, <<72355, "disallowed", <<>>>>,
    <<72368, "valid", <<>>>>, <<72441, "disallowed", <<>>>>, <<72448, "valid", <<>>>>,
    <<72458, "disallowed", <<>>>>, <<72704, "valid", <<>>>>, <<72713, "disallowed", <<>>>>,
    <<72714, "valid", <<>>>>, <<72759, "disallowed", <<>>>>, <<72760, "valid", <<>>>>,
    <<72774, "disallowed", <<>>>>, <<72784, "valid", <<>>>>, <<72813, "disallowed", <<>>>>,
    <<72816, "valid", <<>>>>, <<72848, "disallowed", <<>>>>, <<72850, "valid", <<>>>>,
    <<72872, "disallowed", <<>>>>, <<72873, "valid", <<>>>>, <<72887, "disallowed", <<>>>>,
    <<72960, "valid", <<>>>>, <<72967, "disallowed", <<>>>>, <<72968, "valid", <<>>>>,
    <<72970, "disallowed", <<>>>>, <<72971, "valid", <<>>>>, <<73015, "disallowed", <<>>>>,
    <<73018, "valid", <<>>>>, <<73019, "disallowed", <<>>>>, <<73020, "valid", <<>>>>,
    <<73022, "disallowed", <<>>>>, <<73023, "valid", <<>>>>, <<73032, "disallowed", <<>>>>,
    <<73040, "valid", <<>>>>, <<73050, "disallowed", <<>>>>, <<73056, "valid", <<>>>>,
    <<73062, "disallowed", <<>>>>, <<73063, "valid", <<>>>>, <<73065, "disallowed", <<>>>>,
    <<73066, "valid", <<>>>>, <<73103, "disallowed", <<>>>>, <<73104, "valid", <<>>>>,
    <<73106, "disallowed", <<>>>>, <<73107, "valid", <<>>>>, <<73113, "disallowed", <<>>>>,
    <<73120, "valid", <<>>>>, <<73130, "disallowed", <<>>>>, <<73440, "valid", <<>>>>,
    <<73465, "disallowed", <<>>>>, <<73472, "valid", <<>>>>, <<73489, "disallowed", <<>>>>,
    <<73490, "valid", <<>>>>, <<73531, "disallowed", <<>>>>, <<73534, "valid", <<>>>>,
    <<73562, "disallowed", <<>>>>, <<73648, "valid", <<>>>>, <<73649, "disallowed", <<>>>>,
    <<73664, "valid", <<>>>>, <<73714, "disallowed", <<>>>>, <<73727, "valid", <<>>>>,
    <<74650, "disallowed", <<>>>>, <<74752, "valid", <<>>>>, <<74863, "disallowed", <<>>>>,
    <<74864, "valid", <<>>>>, <<74869, "disallowed", <<>>>>, <<74880, "valid", <<>>>>,
    <<75076, "disallowed", <<>>>>, <<77712, "valid", <<>>>>, <<77811, "disallowed", <<>>>>,
    <<77824, "valid", <<>>>>, <<78896, "disallowed", <<>>>>, <<78912, "valid", <<>>>>,
    <<78934, "disallowed", <<>>>>, <<82944, "valid", <<>>>>, <<83527, "disallowed", <<>>>>,
    <<92160, "valid", <<>>>>, <<92729, "disallowed", <<>>>>, <<92736, "valid", <<>>>>,
    <<92767, "disallowed", <<>>>>, <<92768, "valid", <<>>>>, <<92778, "disallowed", <<>>>>,
    <<92782, "valid", <<>>>>, <<92863, "disallowed", <<>>>>, <<92864, "valid", <<>>>>,
    <<92874, "disallowed", <<>>>>, <<92880, "valid", <<>>>>, <<92910, "disallowed", <<>>>>,
    <<92912, "valid", <<>>>>, <<92918, "disallowed", <<>>>>, <<92928, "valid", <<>>>>,
    <<92998, "disallowed", <<>>>>, <<93008, "valid", <<>>>>, <<93018, "disallowed", <<>>>>,
    <<93019, "valid", <<>>>>, <<93026, "disallowed", <<>>>>, <<93027, "valid", <<>>>>,
    <<93048, "disallowed", <<>>>>, <<93053, "valid", <<>>>>, <<93072, "disallowed", <<>>>>,
    <<93760, "mapped", <<93792>>>>, <<93761, "mapped", <<93793>>>>,
    <<93762, "mapped", <<93794>>>>, <<93763, "mapped", <<93795>>>>,
    <<93764, "mapped", <<93796>>>>, <<93765, "mapped", <<93797>>>>,
    <<93766, "mapped", <<93798>>>>, <<93767, "mapped", <<93799>>>>,
    <<93768, "mapped", <<93800>>>>, <<93769, "mapped", <<93801>>>>,
    <<93770, "mapped", <<93802>>>>, <<93771, "mapped", <<93803>>>>,
    <<93772, "mapped", <<93804>>>>, <<93773, "mapped", <<93805>>>>,
    <<93774, "mapped", <<93806>>>>, <<93775, "mapped", <<93807>>>>,
    <<93776, "mapped", <<93808>>>>, <<93777, "mapped", <<93809>>>>,
    <<93778, "mapped", <<93810>>>>, <<93779, "mapped", <<93811>>>>,
    <<93780, "mapped", <<93812>>>>, <<93781, "mapped", <<93813>>>>,
    <<93782, "mapped", <<93814>>>>, <<93783, "mapped", <<93815>>>>,
    <<93784, "mapped", <<93816>>>>, <<93785, "mapped", <<93817>>>>,
    <<93786, "mapped", <<93818>>>>, <<93787, "mapped", <<93819>>>>,
    <<93788, "mapped", <<93820>>>>, <<93789, "mapped", <<93821>>>>,
    <<93790, "mapped", <<93822>>>>, <<93791, "mapped", <<93823>>>>, <<93792, "valid", <<>>>>,
    <<93851, "disallowed", <<>>>>, <<93952, "valid", <<>>>>, <<94027, "disallowed", <<>>>>,
    <<94031, "valid", <<>>>>, <<94088, "disallowed", <<>>>>, <<94095, "valid", <<>>>>,
    <<94112, "disallowed", <<>>>>, <<94176, "valid", <<>>>>, <<94181, "disallowed", <<>>>>,
    <<94192, "valid", <<>>>>, <<94194, "disallowed", <<>>>>, <<94208, "valid", <<>>>>,
    <<100344, "disallowed", <<>>>>, <<100352, "valid", <<>>>>, <<101590, "disallowed", <<>>>>,
    <<101632, "valid", <<>>>>, <<101641, "disallowed", <<>>>>, <<110576, "valid", <<>>>>,
    <<110580, "disallowed", <<>>>>, <<110581, "valid", <<>>>>, <<110588, "disallowed", <<>>>>,
    <<110589, "valid", <<>>>>, <<110591, "disallowed", <<>>>>, <<110592, "valid", <<>>>>,
    <<110883, "disallowed", <<>>>>, <<110898, "valid", <<>>>>, <<110899, "disallowed", <<>>>>,
    <<110928, "valid", <<>>>>, <<110931, "disallowed", <<>>>>, <<110933, "valid", <<>>>>,
    <<110934, "disallowed", <<>>>>, <<110948, "valid", <<>>>>, <<110952, "disallowed", <<>>>>,
    <<110960, "valid", <<>>>>, <<111356, "disallowed", <<>>>>, <<113664, "valid", <<>>>>,
    <<113771, "disallowed", <<>>>>, <<113776, "valid", <<>>>>, <<113789, "disallowed", <<>>>>,
    <<113792, "valid", <<>>>>, <<113801, "disallowed", <<>>>>, <<113808, "valid", <<>>>>,
    <<113818, "disallowed", <<>>>>, <<113820, "valid", <<>>>>, <<113824, "ignored", <<>>>>,
    <<113828, "disallowed", <<>>>>, <<118528, "valid", <<>>>>, <<118574, "disallowed", <<>>>>,
    <<118576, "valid", <<>>>>, <<118599, "disallowed", <<>>>>, <<118608, "valid", <<>>>>,
    <<118724, "disallowed", <<>>>>, <<118784, "valid", <<>>>>, <<119030, "disallowed", <<>>>>,
    <<119040, "valid", <<>>>>, <<119079, "disallowed", <<>>>>, <<119081, "valid", <<>>>>,
    <<119134, "mapped", <<119127, 119141>>>>, <<119135, "mapped", <<119128, 119141>>>>,
    <<119136, "mapped", <<119128, 119141, 119150>>>>,
    <<119137, "mapped", <<119128, 119141, 119151>>>>,
    <<119138, "mapped", <<119128, 119141, 119152>>>>,
    <<119139, "mapped", <<119128, 119141, 119153>>>>,
    <<119140, "mapped", <<119128, 119141, 119154>>>>, <<119141, "valid", <<>>>>,
    <<119155, "disallowed", <<>>>>, <<119163, "valid", <<>>>>,
    <<119227, "mapped", <<119225, 119141>>>>, <<119228, "mapped", <<119226, 119141>>>>,
    <<119229, "mapped", <<119225, 119141, 119150>>>>,
    <<119230, "mapped", <<119226, 119141, 119150>>>>,
    <<119231, "mapped", <<119225, 119141, 119151>>>>,
    <<119232, "mapped", <<119226, 119141, 119151>>>>, <<119233, "valid", <<>>>>,
    <<119275, "disallowed", <<>>>>, <<119296, "valid", <<>>>>, <<119366, "disallowed", <<>>>>,
    <<119488, "valid", <<>>>>, <<119508, "disallowed", <<>>>>, <<119520, "valid", <<>>>>,
    <<119540, "disallowed", <<>>>>, <<119552, "valid", <<>>>>, <<119639, "disallowed", <<>>>>,
    <<119648, "valid", <<>>>>, <<119673, "disallowed", <<>>>>, <<119808, "mapped", <<97>>>>,
    <<119809, "mapped", <<98>>>>, <<119810, "mapped", <<99>>>>, <<119811, "mapped", <<100>>>>,
    <<119812, "mapped", <<101>>>>, <<119813, "mapped", <<102>>>>, <<119814, "mapped", <<103>>>>,
    <<119815, "mapped", <<104>>>>, <<119816, "mapped", <<105>>>>, <<119817, "mapped", <<106>>>>,
    <<119818, "mapped", <<107>>>>, <<119819, "mapped", <<108>>>>, <<119820, "mapped", <<109>>>>,
    <<119821, "mapped", <<110>>>>, <<119822, "mapped", <<111>>>>, <<119823, "mapped", <<112>>>>,
    <<119824, "mapped", <<113>>>>, <<119825, "mapped", <<114>>>>, <<119826, "mapped", <<115>>>>,
    <<119827, "mapped", <<116>>>>, <<119828, "mapped", <<117>>>>, <<119829, "mapped", <<118>>>>,
    <<119830, "mapped", <<119>>>>, <<119831, "mapped", <<120>>>>, <<119832, "mapped", <<121>>>>,
    <<119833, "mapped", <<122>>>>, <<119834, "mapped", <<97>>>>, <<119835, "mapped", <<98>>>>,
    <<119836, "mapped", <<99>>>>, <<119837, "mapped", <<100>>>>, <<119838, "mapped", <<101>>>>,
    <<119839, "mapped", <<102>>>>, <<119840, "mapped", <<103>>>>, <<119841, "mapped", <<104>>>>,
    <<119842, "mapped", <<105>>>>, <<119843, "mapped", <<106>>>>, <<119844, "mapped", <<107>>>>,
    <<119845, "mapped", <<108>>>>, <<119846, "mapped", <<109>>>>, <<119847, "mapped", <<110>>>>,
    <<119848, "mapped", <<111>>>>, <<119849, "mapped", <<112>>>>, <<119850, "mapped", <<113>>>>,
    <<119851, "mapped", <<114>>>>, <<119852, "mapped", <<115>>>>, <<119853, "mapped", <<116>>>>,
    <<119854, "mapped", <<117>>>>, <<119855, "mapped", <<118>>>>, <<119856, "mapped", <<119>>>>,
    <<119857, "mapped", <<120>>>>, <<119858, "mapped", <<121>>>>, <<119859, "mapped", <<122>>>>,
    <<119860, "mapped", <<97>>>>, <<119861, "mapped", <<98>>>>, <<119862, "mapped", <<99>>>>,
    <<119863, "mapped", <<100>>>>, <<119864, "mapped", <<101>>>>, <<119865, "mapped", <<102>>>>,
    <<119866, "mapped", <<103>>>>, <<119867, "mapped", <<104>>>>, <<119868, "mapped", <<105>>>>,
    <<119869, "mapped", <<106>>>>, <<119870, "mapped", <<107>>>>, <<119871, "mapped", <<108>>>>,
    <<119872, "mapped", <<109>>>>, <<119873, "mapped", <<110>>>>, <<119874, "mapped", <<111>>>>,
    <<119875, "mapped", <<112>>>>, <<119876, "mapped", <<113>>>>, <<119877, "mapped", <<114>>>>,
    <<119878, "mapped", <<115>>>>, <<119879, "mapped", <<116>>>>, <<119880, "mapped", <<117>>>>,
    <<119881, "mapped", <<118>>>>, <<119882, "mapped", <<119>>>>, <<119883, "mapped", <<120>>>>,
    <<119884, "mapped", <<121>>>>, <<119885, "mapped", <<122>>>>, <<119886, "mapped", <<97>>>>,
    <<119887, "mapped", <<98>>>>, <<119888, "mapped", <<99>>>>, <<119889, "mapped", <<100>>>>,
    <<119890, "mapped", <<101>>>>, <<119891, "mapped", <<102>>>>, <<119892, "mapped", <<103>>>>,
    <<119893, "disallowed", <<>>>>, <<119894, "mapped", <<105>>>>, <<119895, "mapped", <<106>>>>,
    <<119896, "mapped", <<107>>>>, <<119897, "mapped", <<108>>>>, <<119898, "mapped", <<109>>>>,
    <<119899, "mapped", <<110>>>>, <<119900, "mapped", <<111>>>>, <<119901, "mapped", <<112>>>>,
    <<119902, "mapped", <<113>>>>, <<119903, "mapped", <<114>>>>, <<119904, "mapped", <<115>>>>,
    <<119905, "mapped", <<116>>>>, <<119906, "mapped", <<117>>>>, <<119907, "mapped", <<118>>>>,
    <<119908, "mapped", <<119>>>>, <<119909, "mapped", <<120>>>>, <<119910, "mapped", <<121>>>>,
    <<119911, "mapped", <<122>>>>, <<119912, "mapped", <<97>>>>, <<119913, "mapped", <<98>>>>,
    <<119914, "mapped", <<99>>>>, <<119915, "mapped", <<100>>>>, <<119916, "mapped", <<101>>>>,
    <<119917, "mapped", <<102>>>>, <<119918, "mapped", <<103>>>>, <<119919, "mapped", <<104>>>>,
    <<119920, "mapped", <<105>>>>, <<119921, "mapped", <<106>>>>, <<119922, "mapped", <<107>>>>,
    <<119923, "mapped", <<108>>>>, <<119924, "mapped", <<109>>>>, <<119925, "mapped", <<110>>>>,
    <<119926, "mapped", <<111>>>>, <<119927, "mapped", <<112>>>>, <<119928, "mapped", <<113>>>>,
    <<119929, "mapped", <<114>>>>, <<119930, "mapped", <<115>>>>, <<119931, "mapped", <<116>>>>,
    <<119932, "mapped", <<117>>>>, <<119933, "mapped", <<118>>>>, <<119934, "mapped", <<119>>>>,
    <<119935, "mapped", <<120>>>>, <<119936, "mapped", <<121>>>>, <<119937, "mapped", <<122>>>>,
    <<119938, "mapped", <<97>>>>, <<119939, "mapped", <<98>>>>, <<119940, "mapped", <<99>>>>,
    <<119941, "mapped", <<100>>>>, <<119942, "mapped", <<101>>>>, <<119943, "mapped", <<102>>>>,
    <<119944, "mapped", <<103>>>>, <<119945, "mapped", <<104>>>>, <<119946, "mapped", <<105>>>>,
    <<119947, "mapped", <<106>>>>, <<119948, "mapped", <<107>>>>, <<119949, "mapped", <<108>>>>,
    <<119950, "mapped", <<109>>>>, <<119951, "mapped", <<110>>>>, <<119952, "mapped", <<111>>>>,
    <<119953, "mapped", <<112>>>>, <<119954, "mapped", <<113>>>>, <<119955, "mapped", <<114>>>>,
    <<119956, "mapped", <<115>>>>, <<119957, "mapped", <<116>>>>, <<119958, "mapped", <<117>>>>,
    <<119959, "mapped", <<118>>>>, <<119960, "mapped", <<119>>>>, <<119961, "mapped", <<120>>>>,
    <<119962, "mapped", <<121>>>>, <<119963, "mapped", <<122>>>>, <<119964, "mapped", <<97>>>>,
    <<119965, "disallowed", <<>>>>, <<119966, "mapped", <<99>>>>, <<119967, "mapped", <<100>>>>,
    <<119968, "disallowed", <<>>>>, <<119970, "mapped", <<103>>>>, <<119971, "disallowed", <<>>>>,
    <<119973, "mapped", <<106>>>>, <<119974, "mapped", <<107>>>>, <<119975, "disallowed", <<>>>>,
    <<119977, "mapped", <<110>>>>, <<119978, "mapped", <<111>>>>, <<119979, "mapped", <<112>>>>,
    <<119980, "mapped", <<113>>>>, <<119981, "disallowed", <<>>>>, <<119982, "mapped", <<115>>>>,
    <<119983, "mapped", <<116>>>>, <<119984, "mapped", <<117>>>>, <<119985, "mapped", <<118>>>>,
    <<119986, "mapped", <<119>>>>, <<119987, "mapped", <<120>>>>, <<119988, "mapped", <<121>>>>,
    <<119989, "mapped", <<122>>>>, <<119990, "mapped", <<97>>>>, <<119991, "mapped", <<98>>>>,
    <<119992, "mapped", <<99>>>>, <<119993, "mapped", <<100>>>>, <<119994, "disallowed", <<>>>>,
    <<119995, "mapped", <<102>>>>, <<119996, "disallowed", <<>>>>, <<119997, "mapped", <<104>>>>,
    <<119998, "mapped", <<105>>>>, <<119999, "mapped", <<106>>>>, <<120000, "mapped", <<107>>>>,
    <<120001, "mapped", <<108>>>>, <<120002, "mapped", <<109>>>>, <<120003, "mapped", <<110>>>>,
    <<120004, "disallowed", <<>>>>, <<120005, "mapped", <<112>>>>, <<120006, "mapped", <<113>>>>,
    <<120007, "mapped", <<114>>>>, <<120008, "mapped", <<115>>>>, <<120009, "mapped", <<116>>>>,
    <<120010, "mapped", <<117>>>>, <<120011, "mapped", <<118>>>>, <<120012, "mapped", <<119>>>>,
    <<120013, "mapped", <<120>>>>, <<120014, "mapped", <<121>>>>, <<120015, "mapped", <<122>>>>,
    <<120016, "mapped", <<97>>>>, <<120017, "mapped", <<98>>>>, <<120018, "mapped", <<99>>>>,
    <<120019, "mapped", <<100>>>>, <<120020, "mapped", <<101>>>>, <<120021, "mapped", <<102>>>>,
    <<120022, "mapped", <<103>>>>, <<120023, "mapped", <<104>>>>, <<120024, "mapped", <<105>>>>,
    <<120025, "mapped", <<106>>>>, <<120026, "mapped", <<107>>>>, <<120027, "mapped", <<108>>>>,
    <<120028, "mapped", <<109>>>>, <<120029, "mapped", <<110>>>>, <<120030, "mapped", <<111>>>>,
    <<120031, "mapped", <<112>>>>, <<120032, "mapped", <<113>>>>, <<120033, "mapped", <<114>>>>,
    <<120034, "mapped", <<115>>>>, <<120035, "mapped", <<116>>>>, <<120036, "mapped", <<117>>>>,
    <<120037, "mapped", <<118>>>>, <<120038, "mapped", <<119>>>>, <<120039, "mapped", <<120>>>>,
    <<120040, "mapped", <<121>>>>, <<120041, "mapped", <<122>>>>, <<120042, "mapped", <<97>>>>,
    <<120043, "mapped", <<98>>>>, <<120044, "mapped", <<99>>>>, <<120045, "mapped", <<100>>>>,
    <<120046, "mapped", <<101>>>>, <<120047, "mapped", <<102>>>>, <<120048, "mapped", <<103>>>>,
    <<120049, "mapped", <<104>>>>, <<120050, "mapped", <<105>>>>, <<120051, "mapped", <<106>>>>,
    <<120052, "mapped", <<107>>>>, <<120053, "mapped", <<108>>>>, <<120054, "mapped", <<109>>>>,
    <<120055, "mapped", <<110>>>>, <<120056, "mapped", <<111>>>>, <<120057, "mapped", <<112>>>>,
    <<120058, "mapped", <<113>>>>, <<120059, "mapped", <<114>>>>, <<120060, "mapped", <<115>>>>,
    <<120061, "mapped", <<116>>>>, <<120062, "mapped", <<117>>>>, <<120063, "mapped", <<118>>>>,
    <<120064, "mapped", <<119>>>>, <<120065, "mapped", <<120>>>>, <<120066, "mapped", <<121>>>>,
    <<120067, "mapped", <<122>>>>, <<120068, "mapped", <<97>>>>, <<120069, "mapped", <<98>>>>,
    <<120070, "disallowed", <<>>>>, <<120071, "mapped", <<100>>>>, <<120072, "mapped", <<101>>>>,
    <<120073, "mapped", <<102>>>>, <<120074, "mapped", <<103>>>>, <<120075, "disallowed", <<>>>>,
    <<120077, "mapped", <<106>>>>, <<120078, "mapped", <<107>>>>, <<120079, "mapped", <<108>>>>,
    <<120080, "mapped", <<109>>>>, <<120081, "mapped", <<110>>>>, <<120082, "mapped", <<111>>>>,
    <<120083, "mapped", <<112>>>>, <<120084, "mapped", <<113>>>>, <<120085, "disallowed", <<>>>>,
    <<120086, "mapped", <<115>>>>, <<120087, "mapped", <<116>>>>, <<120088, "mapped", <<117>>>>,
    <<120089, "mapped", <<118>>>>, <<120090, "mapped", <<119>>>>, <<120091, "mapped", <<120>>>>,
    <<120092, "mapped", <<121>>>>, <<120093, "disallowed", <<>>>>, <<120094, "mapped", <<97>>>>,
    <<120095, "mapped", <<98>>>>, <<120096, "mapped", <<99>>>>, <<120097, "mapped", <<100>>>>,
    <<120098, "mapped", <<101>>>>, <<120099, "mapped", <<102>>>>, <<120100, "mapped", <<103>>>>,
    <<120101, "mapped", <<104>>>>, <<120102, "mapped", <<105>>>>, <<120103, "mapped", <<106>>>>,
    <<120104, "mapped", <<107>>>>, <<120105, "mapped", <<108>>>>, <<120106, "mapped", <<109>>>>,
    <<120107, "mapped", <<110>>>>, <<120108, "mapped", <<111>>>>, <<120109, "mapped", <<112>>>>,
    <<120110, "mapped", <<113>>>>, <<120111, "mapped", <<114>>>>, <<120112, "mapped", <<115>>>>,
    <<120113, "mapped", <<116>>>>, <<120114, "mapped", <<117>>>>, <<120115, "mapped", <<118>>>>,
    <<120116, "mapped", <<119>>>>, <<120117, "mapped", <<120>>>>, <<120118, "mapped", <<121>>>>,
    <<120119, "mapped", <<122>>>>, <<120120, "mapped", <<97>>>>, <<120121, "mapped", <<98>>>>,
    <<120122, "disallowed", <<>>>>, <<120123, "mapped", <<100>>>>, <<120124, "mapped", <<101>>>>,
    <<120125, "mapped", <<102>>>>, <<120126, "mapped", <<103>>>>, <<120127, "disallowed", <<>>>>,
    <<120128, "mapped", <<105>>>>, <<120129, "mapped", <<106>>>>, <<120130, "mapped", <<107>>>>,
    <<120131, "mapped", <<108>>>>, <<120132, "mapped", <<109>>>>, <<120133, "disallowed", <<>>>>,
    <<120134, "mapped", <<111>>>>, <<120135, "disallowed", <<>>>>, <<120138, "mapped", <<115>>>>,
    <<120139, "mapped", <<116>>>>, <<120140, "mapped", <<117>>>>, <<120141, "mapped", <<118>>>>,
    <<120142, "mapped", <<119>>>>, <<120143, "mapped", <<120>>>>, <<120144, "mapped", <<121>>>>,
    <<120145, "disallowed", <<>>>>, <<120146, "mapped", <<97>>>>, <<120147, "mapped", <<98>>>>,
    <<120148, "mapped", <<99>>>>, <<120149, "mapped", <<100>>>>, <<120150, "mapped", <<101>>>>,
    <<120151, "mapped", <<102>>>>, <<120152, "mapped", <<103>>>>, <<120153, "mapped", <<104>>>>,
    <<120154, "mapped", <<105>>>>, <<120155, "mapped", <<106>>>>, <<120156, "mapped", <<107>>>>,
    <<120157, "mapped", <<108>>>>, <<120158, "mapped", <<109>>>>, <<120159, "mapped", <<110>>>>,
    <<120160, "mapped", <<111>>>>, <<120161, "mapped", <<112>>>>, <<120162, "mapped", <<113>>>>,
    <<120163, "mapped", <<114>>>>, <<120164, "mapped", <<115>>>>, <<120165, "mapped", <<116>>>>,
    <<120166, "mapped", <<117>>>>, <<120167, "mapped", <<118>>>>, <<120168, "mapped", <<119>>>>,
    <<120169, "mapped", <<120>>>>, <<120170, "mapped", <<121>>>>, <<120171, "mapped", <<122>>>>,
    <<120172, "mapped", <<97>>>>, <<120173, "mapped", <<98>>>>, <<120174, "mapped", <<99>>>>,
    <<120175, "mapped", <<100>>>>, <<120176, "mapped", <<101>>>>, <<120177, "mapped", <<102>>>>,
    <<120178, "mapped", <<103>>>>, <<120179, "mapped", <<104>>>>, <<120180, "mapped", <<105>>>>,
    <<120181, "mapped", <<106>>>>, <<120182, "mapped", <<107>>>>, <<120183, "mapped", <<108>>>>,
    <<120184, "mapped", <<109>>>>, <<120185, "mapped", <<110>>>>, <<120186, "mapped", <<111>>>>,
    <<120187, "mapped", <<112>>>>, <<120188, "mapped", <<113>>>>, <<120189, "mapped", <<114>>>>,
    <<120190, "mapped", <<115>>>>, <<120191, "mapped", <<116>>>>, <<120192, "mapped", <<117>>>>,
    <<120193, "mapped", <<118>>>>, <<120194, "mapped", <<119>>>>, <<120195, "mapped", <<120>>>>,
    <<120196, "mapped", <<121>>>>, <<120197, "mapped", <<122>>>>, <<120198, "mapped", <<97>>>>,
    <<120199, "mapped", <<98>>>>, <<120200, "mapped", <<99>>>>, <<120201, "mapped", <<100>>>>,
    <<120202, "mapped", <<101>>>>, <<120203, "mapped", <<102>>>>, <<120204, "mapped", <<103>>>>,
    <<120205, "mapped", <<104>>>>, <<120206, "mapped", <<105>>>>, <<120207, "mapped", <<106>>>>,
    <<120208, "mapped", <<107>>>>, <<120209, "mapped", <<108>>>>, <<120210, "mapped", <<109>>>>,
    <<120211, "mapped", <<110>>>>, <<120212, "mapped", <<111>>>>, <<120213, "mapped", <<112>>>>,
    <<120214, "mapped", <<113>>>>, <<120215, "mapped", <<114>>>>, <<120216, "mapped", <<115>>>>,
    <<120217, "mapped", <<116>>>>, <<120218, "mapped", <<117>>>>, <<120219, "mapped", <<118>>>>,
    <<120220, "mapped", <<119>>>>, <<120221, "mapped", <<120>>>>, <<120222, "mapped", <<121>>>>,
    <<120223, "mapped", <<122>>>>, <<120224, "mapped", <<97>>>>, <<120225, "mapped", <<98>>>>,
    <<120226, "mapped", <<99>>>>, <<120227, "mapped", <<100>>>>, <<120228, "mapped", <<101>>>>,
    <<120229, "mapped", <<102>>>>, <<120230, "mapped", <<103>>>>, <<120231, "mapped", <<104>>>>,
    <<120232, "mapped", <<105>>>>, <<120233, "mapped", <<106>>>>, <<120234, "mapped", <<107>>>>,
    <<120235, "mapped", <<108>>>>, <<120236, "mapped", <<109>>>>, <<120237, "mapped", <<110>>>>,
    <<120238, "mapped", <<111>>>>, <<120239, "mapped", <<112>>>>, <<120240, "mapped", <<113>>>>,
    <<120241, "mapped", <<114>>>>, <<120242, "mapped", <<115>>>>, <<120243, "mapped", <<116>>>>,
    <<120244, "mapped", <<117>>>>, <<120245, "mapped", <<118>>>>, <<120246, "mapped", <<119>>>>,
    <<120247, "mapped", <<120>>>>, <<120248, "mapped", <<121>>>>, <<120249, "mapped", <<122>>>>,
    <<120250, "mapped", <<97>>>>, <<120251, "mapped", <<98>>>>, <<120252, "mapped", <<99>>>>,
    <<120253, "mapped", <<100>>>>, <<120254, "mapped", <<101>>>>, <<120255, "mapped", <<102>>>>,
    <<120256, "mapped", <<103>>>>, <<120257, "mapped", <<104>>>>, <<120258, "mapped", <<105>>>>,
    <<120259, "mapped", <<106>>>>, <<120260, "mapped", <<107>>>>, <<120261, "mapped", <<108>>>>,
    <<120262, "mapped", <<109>>>>, <<120263, "mapped", <<110>>>>, <<120264, "mapped", <<111>>>>,
    <<120265, "mapped", <<112>>>>, <<120266, "mapped", <<113>>>>, <<120267, "mapped", <<114>>>>,
    <<120268, "mapped", <<115>>>>, <<120269, "mapped", <<116>>>>, <<120270, "mapped", <<117>>>>,
    <<120271, "mapped", <<118>>>>, <<120272, "mapped", <<119>>>>, <<120273, "mapped", <<120>>>>,
    <<120274, "mapped", <<121>>>>, <<120275, "mapped", <<122>>>>, <<120276, "mapped", <<97>>>>,
    <<120277, "mapped", <<98>>>>, <<120278, "mapped", <<99>>>>, <<120279, "mapped", <<100>>>>,
    <<120280, "mapped", <<101>>>>, <<120281, "mapped", <<102>>>>, <<120282, "mapped", <<103>>>>,
    <<120283, "mapped", <<104>>>>, <<120284, "mapped", <<105>>>>, <<120285, "mapped", <<106>>>>,
    <<120286, "mapped", <<107>>>>, <<120287, "mapped", <<108>>>>, <<120288, "mapped", <<109>>>>,
    <<120289, "mapped", <<110>>>>, <<120290, "mapped", <<111>>>>, <<120291, "mapped", <<112>>>>,
    <<120292, "mapped", <<113>>>>, <<120293, "mapped", <<114>>>>, <<120294, "mapped", <<115>>>>,
    <<120295, "mapped", <<116>>>>, <<120296, "mapped", <<117>>>>, <<120297, "mapped", <<118>>>>,
    <<120298, "mapped", <<119>>>>, <<120299, "mapped", <<120>>>>, <<120300, "mapped", <<121>>>>,
    <<120301, "mapped", <<122>>>>, <<120302, "mapped", <<97>>>>, <<120303, "mapped", <<98>>>>,
    <<120304, "mapped", <<99>>>>, <<120305, "mapped", <<100>>>>, <<120306, "mapped", <<101>>>>,
    <<120307, "mapped", <<102>>>>, <<120308, "mapped", <<103>>>>, <<120309, "mapped", <<104>>>>,
    <<120310, "mapped", <<105>>>>, <<120311, "mapped", <<106>>>>, <<120312, "mapped", <<107>>>>,
    <<120313, "mapped", <<108>>>>, <<120314, "mapped", <<109>>>>, <<120315, "mapped", <<110>>>>,
    <<120316, "mapped", <<111>>>>, <<120317, "mapped", <<112>>>>, <<120318, "mapped", <<113>>>>,
    <<120319, "mapped", <<114>>>>, <<120320, "mapped", <<115>>>>, <<120321, "mapped", <<116>>>>,
    <<120322, "mapped", <<117>>>>, <<120323, "mapped", <<118>>>>, <<120324, "mapped", <<119>>>>,
    <<120325, "mapped", <<120>>>>, <<120326, "mapped", <<121>>>>, <<120327, "mapped", <<122>>>>,
    <<120328, "mapped", <<97>>>>, <<120329, "mapped", <<98>>>>, <<120330, "mapped", <<99>>>>,
    <<120331, "mapped", <<100>>>>, <<120332, "mapped", <<101>>>>, <<120333, "mapped", <<102>>>>,
    <<120334, "mapped", <<103>>>>, <<120335, "mapped", <<104>>>>, <<120336, "mapped", <<105>>>>,
    <<120337, "mapped", <<106>>>>, <<120338, "mapped", <<107>>>>, <<120339, "mapped", <<108>>>>,
    <<120340, "mapped", <<109>>>>, <<120341, "mapped", <<110>>>>, <<120342, "mapped", <<111>>>>,
    <<120343, "mapped", <<112>>>>, <<120344, "mapped", <<113>>>>, <<120345, "mapped", <<114>>>>,
    <<120346, "mapped", <<115>>>>, <<120347, "mapped", <<116>>>>, <<120348, "mapped", <<117>>>>,
    <<120349, "mapped", <<118>>>>, <<120350, "mapped", <<119>>>>, <<120351, "mapped", <<120>>>>,
    <<120352, "mapped", <<121>>>>, <<120353, "mapped", <<122>>>>, <<120354, "mapped", <<97>>>>,
    <<120355, "mapped", <<98>>>>, <<120356, "mapped", <<99>>>>, <<120357, "mapped", <<100>>>>,
    <<120358, "mapped", <<101>>>>, <<120359, "mapped", <<102>>>>, <<120360, "mapped", <<103>>>>,
    <<120361, "mapped", <<104>>>>, <<120362, "mapped", <<105>>>>, <<120363, "mapped", <<106>>>>,
    <<120364, "mapped", <<107>>>>, <<120365, "mapped", <<108>>>>, <<120366, "mapped", <<109>>>>,
    <<120367, "mapped", <<110>>>>, <<120368, "mapped", <<111>>>>, <<120369, "mapped", <<112>>>>,
    <<120370, "mapped", <<113>>>>, <<120371, "mapped", <<114>>>>, <<120372, "mapped", <<115>>>>,
    <<120373, "mapped", <<116>>>>, <<120374, "mapped", <<117>>>>, <<120375, "mapped", <<118>>>>,
    <<120376, "mapped", <<119>>>>, <<120377, "mapped", <<120>>>>, <<120378, "mapped", <<121>>>>,
    <<120379, "mapped", <<122>>>>, <<120380, "mapped", <<97>>>>, <<120381, "mapped", <<98>>>>,
    <<120382, "mapped", <<99>>>>, <<120383, "mapped", <<100>>>>, <<120384, "mapped", <<101>>>>,
    <<120385, "mapped", <<102>>>>, <<120386, "mapped", <<103>>>>, <<120387, "mapped", <<104>>>>,
    <<120388, "mapped", <<105>>>>, <<120389, "mapped", <<106>>>>, <<120390, "mapped", <<107>>>>,
    <<120391, "mapped", <<108>>>>, <<120392, "mapped", <<109>>>>, <<120393, "mapped", <<110>>>>,
    <<120394, "mapped", <<111>>>>, <<120395, "mapped", <<112>>>>, <<120396, "mapped", <<113>>>>,
    <<120397, "mapped", <<114>>>>, <<120398, "mapped", <<115>>>>, <<120399, "mapped", <<116>>>>,
    <<120400, "mapped", <<117>>>>, <<120401, "mapped", <<118>>>>, <<120402, "mapped", <<119>>>>,
    <<120403, "mapped", <<120>>>>, <<120404, "mapped", <<121>>>>, <<120405, "mapped", <<122>>>>,
    <<120406, "mapped", <<97>>>>, <<120407, "mapped", <<98>>>>, <<120408, "mapped", <<99>>>>,
    <<120409, "mapped", <<100>>>>, <<120410, "mapped", <<101>>>>, <<120411, "mapped", <<102>>>>,
    <<120412, "mapped", <<103>>>>, <<120413, "mapped", <<104>>>>, <<120414, "mapped", <<105>>>>,
    <<120415, "mapped", <<106>>>>, <<120416, "mapped", <<107>>>>, <<120417, "mapped", <<108>>>>,
    <<120418, "mapped", <<109>>>>, <<120419, "mapped", <<110>>>>, <<120420, "mapped", <<111>>>>,
    <<120421, "mapped", <<112>>>>, <<120422, "mapped", <<113>>>>, <<120423, "mapped", <<114>>>>,
    <<120424, "mapped", <<115>>>>, <<120425, "mapped", <<116>>>>, <<120426, "mapped", <<117>>>>,
    <<120427, "mapped", <<118>>>>, <<120428, "mapped", <<119>>>>, <<120429, "mapped", <<120>>>>,
    <<120430, "mapped", <<121>>>>, <<120431, "mapped", <<122>>>>, <<120432, "mapped", <<97>>>>,
    <<120433, "mapped", <<98>>>>, <<120434, "mapped", <<99>>>>, <<120435, "mapped", <<100>>>>,
    <<120436, "mapped", <<101>>>>, <<120437, "mapped", <<102>>>>, <<120438, "mapped", <<103>>>>,
    <<120439, "mapped", <<104>>>>, <<120440, "mapped", <<105>>>>, <<120441, "mapped", <<106>>>>,
    <<120442, "mapped", <<107>>>>, <<120443, "mapped", <<108>>>>, <<120444, "mapped", <<109>>>>,
    <<120445, "mapped", <<110>>>>, <<120446, "mapped", <<111>>>>, <<120447, "mapped", <<112>>>>,
    <<120448, "mapped", <<113>>>>, <<120449, "mapped", <<114>>>>, <<120450, "mapped", <<115>>>>,
    <<120451, "mapped", <<116>>>>, <<120452, "mapped", <<117>>>>, <<120453, "mapped", <<118>>>>,
    <<120454, "mapped", <<119>>>>, <<120455, "mapped", <<120>>>>, <<120456, "mapped", <<121>>>>,
    <<120457, "mapped", <<122>>>>, <<120458, "mapped", <<97>>>>, <<120459, "mapped", <<98>>>>,
    <<120460, "mapped", <<99>>>>, <<120461, "mapped", <<100>>>>, <<120462, "mapped", <<101>>>>,
    <<120463, "mapped", <<102>>>>, <<120464, "mapped", <<103>>>>, <<120465, "mapped", <<104>>>>,
    <<120466, "mapped", <<105>>>>, <<120467, "mapped", <<106>>>>, <<120468, "mapped", <<107>>>>,
    <<120469, "mapped", <<108>>>>, <<120470, "mapped", <<109>>>>, <<120471, "mapped", <<110>>>>,
    <<120472, "mapped", <<111>>>>, <<120473, "mapped", <<112>>>>, <<120474, "mapped", <<113>>>>,
    <<120475, "mapped", <<114>>>>, <<120476, "mapped", <<115>>>>, <<120477, "mapped", <<116>>>>,
    <<120478, "mapped", <<117>>>>, <<120479, "mapped", <<118>>>>, <<120480, "mapped", <<119>>>>,
    <<120481, "mapped", <<120>>>>, <<120482, "mapped", <<121>>>>, <<120483, "mapped", <<122>>>>,
    <<120484, "mapped", <<305>>>>, <<120485, "mapped", <<567>>>>, <<120486, "disallowed", <<>>>>,
    <<120488, "mapped", <<945>>>>, <<120489, "mapped", <<946>>>>, <<120490, "mapped", <<947>>>>,
    <<120491, "mapped", <<948>>>>, <<120492, "mapped", <<949>>>>, <<120493, "mapped", <<950>>>>,
    <<120494, "mapped", <<951>>>>, <<120495, "mapped", <<952>>>>, <<120496, "mapped", <<953>>>>,
    <<120497, "mapped", <<954>>>>, <<120498, "mapped", <<955>>>>, <<120499, "mapped", <<956>>>>,
    <<120500, "mapped", <<957>>>>, <<120501, "mapped", <<958>>>>, <<120502, "mapped", <<959>>>>,
    <<120503, "mapped", <<960>>>>, <<120504, "mapped", <<961>>>>, <<120505, "mapped", <<952>>>>,
    <<120506, "mapped", <<963>>>>, <<120507, "mapped", <<964>>>>, <<120508, "mapped", <<965>>>>,
    <<120509, "mapped", <<966>>>>, <<120510, "mapped", <<967>>>>, <<120511, "mapped", <<968>>>>,
    <<120512, "mapped", <<969>>>>, <<120513, "mapped", <<8711>>>>, <<120514, "mapped", <<945>>>>,
    <<120515, "mapped", <<946>>>>, <<120516, "mapped", <<947>>>>, <<120517, "mapped", <<948>>>>,
    <<120518, "mapped", <<949>>>>, <<120519, "mapped", <<950>>>>, <<120520, "mapped", <<951>>>>,
    <<120521, "mapped", <<952>>>>, <<120522, "mapped", <<953>>>>, <<120523, "mapped", <<954>>>>,
    <<120524, "mapped", <<955>>>>, <<120525, "mapped", <<956>>>>, <<120526, "mapped", <<957>>>>,
    <<120527, "mapped", <<958>>>>, <<120528, "mapped", <<959>>>>, <<120529, "mapped", <<960>>>>,
    <<120530, "mapped", <<961>>>>, <<120531, "mapped", <<963>>>>, <<120533, "mapped", <<964>>>>,
    <<120534, "mapped", <<965>>>>, <<120535, "mapped", <<966>>>>, <<120536, "mapped", <<967>>>>,
    <<120537, "mapped", <<968>>>>, <<120538, "mapped", <<969>>>>, <<120539, "mapped", <<8706>>>>,
    <<120540, "mapped", <<949>>>>, <<120541, "mapped", <<952>>>>, <<120542, "mapped", <<954>>>>,
    <<120543, "mapped", <<966>>>>, <<120544, "mapped", <<961>>>>, <<120545, "mapped", <<960>>>>,
    <<120546, "mapped", <<945>>>>, <<120547, "mapped", <<946>>>>, <<120548, "mapped", <<947>>>>,
    <<120549, "mapped", <<948>>>>, <<120550, "mapped", <<949>>>>, <<120551, "mapped", <<950>>>>,
    <<120552, "mapped", <<951>>>>, <<120553, "mapped", <<952>>>>, <<120554, "mapped", <<953>>>>,
    <<120555, "mapped", <<954>>>>, <<120556, "mapped", <<955>>>>, <<120557, "mapped", <<956>>>>,
    <<120558, "mapped", <<957>>>>, <<120559, "mapped", <<958>>>>, <<120560, "mapped", <<959>>>>,
    <<120561, "mapped", <<960>>>>, <<120562, "mapped", <<961>>>>, <<120563, "mapped", <<952>>>>,
    <<120564, "mapped", <<963>>>>, <<120565, "mapped", <<964>>>>, <<120566, "mapped", <<965>>>>,
    <<120567, "mapped", <<966>>>>, <<120568, "mapped", <<967>>>>, <<120569, "mapped", <<968>>>>,
    <<120570, "mapped", <<969>>>>, <<120571, "mapped", <<8711>>>>, <<120572, "mapped", <<945>>>>,
    <<120573, "mapped", <<946>>>>, <<120574, "mapped", <<947>>>>, <<120575, "mapped", <<948>>>>,
    <<120576, "mapped", <<949>>>>, <<120577, "mapped", <<950>>>>, <<120578, "mapped", <<951>>>>,
    <<120579, "mapped", <<952>>>>, <<120580, "mapped", <<953>>>>, <<120581, "mapped", <<954>>>>,
    <<120582, "mapped", <<955>>>>, <<120583, "mapped", <<956>>>>, <<120584, "mapped", <<957>>>>,
    <<120585, "mapped", <<958>>>>, <<120586, "mapped", <<959>>>>, <<120587, "mapped", <<960>>>>,
    <<120588, "mapped", <<961>>>>, <<120589, "mapped", <<963>>>>, <<120591, "mapped", <<964>>>>,
    <<120592, "mapped", <<965>>>>, <<120593, "mapped", <<966>>>>, <<120594, "mapped", <<967>>>>,
    <<120595, "mapped", <<968>>>>, <<120596, "mapped", <<969>>>>, <<120597, "mapped", <<8706>>>>,
    <<120598, "mapped", <<949>>>>, <<120599, "mapped", <<952>>>>, <<120600, "mapped", <<954>>>>,
    <<120601, "mapped", <<966>>>>, <<120602, "mapped", <<961>>>>, <<120603, "mapped", <<960>>>>,
    <<120604, "mapped", <<945>>>>, <<120605, "mapped", <<946>>>>, <<120606, "mapped", <<947>>>>,
    <<120607, "mapped", <<948>>>>, <<120608, "mapped", <<949>>>>, <<120609, "mapped", <<950>>>>,
    <<120610, "mapped", <<951>>>>, <<120611, "mapped", <<952>>>>, <<120612, "mapped", <<953>>>>,
    <<120613, "mapped", <<954>>>>, <<120614, "mapped", <<955>>>>, <<120615, "mapped", <<956>>>>,
    <<120616, "mapped", <<957>>>>, <<120617, "mapped", <<958>>>>, <<120618, "mapped", <<959>>>>,
    <<120619, "mapped", <<960>>>>, <<120620, "mapped", <<961>>>>, <<120621, "mapped", <<952>>>>,
    <<120622, "mapped", <<963>>>>, <<120623, "mapped", <<964>>>>, <<120624, "mapped", <<965>>>>,
    <<120625, "mapped", <<966>>>>, <<120626, "mapped", <<967>>>>, <<120627, "mapped", <<968>>>>,
    <<120628, "mapped", <<969>>>>, <<120629, "mapped", <<8711>>>>, <<120630, "mapped", <<945>>>>,
    <<120631, "mapped", <<946>>>>, <<120632, "mapped", <<947>>>>, <<120633, "mapped", <<948>>>>,
    <<120634, "mapped", <<949>>>>, <<120635, "mapped", <<950>>>>, <<120636, "mapped", <<951>>>>,
    <<120637, "mapped", <<952>>>>, <<120638, "mapped", <<953>>>>, <<120639, "mapped", <<954>>>>,
    <<120640, "mapped", <<955>>>>, <<120641, "mapped", <<956>>>>, <<120642, "mapped", <<957>>>>,
    <<120643, "mapped", <<958>>>>, <<120644, "mapped", <<959>>>>, <<120645, "mapped", <<960>>>>,
    <<120646, "mapped", <<961>>>>, <<120647, "mapped", <<963>>>>, <<120649, "mapped", <<964>>>>,
    <<120650, "mapped", <<965>>>>, <<120651, "mapped", <<966>>>>, <<120652, "mapped", <<967>>>>,
    <<120653, "mapped", <<968>>>>, <<120654, "mapped", <<969>>>>, <<120655, "mapped", <<8706>>>>,
    <<120656, "mapped", <<949>>>>, <<120657, "mapped", <<952>>>>, <<120658, "mapped", <<954>>>>,
    <<120659, "mapped", <<966>>>>, <<120660, "mapped", <<961>>>>, <<120661, "mapped", <<960>>>>,
    <<120662, "mapped", <<945>>>>, <<120663, "mapped", <<946>>>>, <<120664, "mapped", <<947>>>>,
    <<120665, "mapped", <<948>>>>, <<120666, "mapped", <<949>>>>, <<120667, "mapped", <<950>>>>,
    <<120668, "mapped", <<951>>>>, <<120669, "mapped", <<952>>>>, <<120670, "mapped", <<953>>>>,
    <<120671, "mapped", <<954>>>>, <<120672, "mapped", <<955>>>>, <<120673, "mapped", <<956>>>>,
    <<120674, "mapped", <<957>>>>, <<120675, "mapped", <<958>>>>, <<120676, "mapped", <<959>>>>,
    <<120677, "mapped", <<960>>>>, <<120678, "mapped", <<961>>>>, <<120679, "mapped", <<952>>>>,
    <<120680, "mapped", <<963>>>>, <<120681, "mapped", <<964>>>>, <<120682, "mapped", <<965>>>>,
    <<120683, "mapped", <<966>>>>, <<120684, "mapped", <<967>>>>, <<120685, "mapped", <<968>>>>,
    <<120686, "mapped", <<969>>>>, <<120687, "mapped", <<8711>>>>, <<120688, "mapped", <<945>>>>,
    <<120689, "mapped", <<946>>>>, <<120690, "mapped", <<947>>>>, <<120691, "mapped", <<948>>>>,
    <<120692, "mapped", <<949>>>>, <<120693, "mapped", <<950>>>>, <<120694, "mapped", <<951>>>>,
    <<120695, "mapped", <<952>>>>, <<120696, "mapped", <<953>>>>, <<120697, "mapped", <<954>>>>,
    <<120698, "mapped", <<955>>>>, <<120699, "mapped", <<956>>>>, <<120700, "mapped", <<957>>>>,
    <<120701, "mapped", <<958>>>>, <<120702, "mapped", <<959>>>>, <<120703, "mapped", <<960>>>>,
    <<120704, "mapped", <<961>>>>, <<120705, "mapped", <<963>>>>, <<120707, "mapped", <<964>>>>,
    <<120708, "mapped", <<965>>>>, <<120709, "mapped", <<966>>>>, <<120710, "mapped", <<967>>>>,
    <<120711, "mapped", <<968>>>>, <<120712, "mapped", <<969>>>>, <<120713, "mapped", <<8706>>>>,
    <<120714, "mapped", <<949>>>>, <<120715, "mapped", <<952>>>>, <<120716, "mapped", <<954>>>>,
    <<120717, "mapped", <<966>>>>, <<120718, "mapped", <<961>>>>, <<120719, "mapped", <<960>>>>,
    <<120720, "mapped", <<945>>>>, <<120721, "mapped", <<946>>>>, <<120722, "mapped", <<947>>>>,
    <<120723, "mapped", <<948>>>>, <<120724, "mapped", <<949>>>>, <<120725, "mapped", <<950>>>>,
    <<120726, "mapped", <<951>>>>, <<120727, "mapped", <<952>>>>, <<120728, "mapped", <<953>>>>,
    <<120729, "mapped", <<954>>>>, <<120730, "mapped", <<955>>>>, <<120731, "mapped", <<956>>>>,
    <<120732, "mapped", <<957>>>>, <<120733, "mapped", <<958>>>>, <<120734, "mapped", <<959>>>>,
    <<120735, "mapped", <<960>>>>, <<120736, "mapped", <<961>>>>, <<120737, "mapped", <<952>>>>,
    <<120738, "mapped", <<963>>>>, <<120739, "mapped", <<964>>>>, <<120740, "mapped", <<965>>>>,
    <<120741, "mapped", <<966>>>>, <<120742, "mapped", <<967>>>>, <<120743, "mapped", <<968>>>>,
    <<120744, "mapped", <<969>>>>, <<120745, "mapped", <<8711>>>>, <<120746, "mapped", <<945>>>>,
    <<120747, "mapped", <<946>>>>, <<120748, "mapped", <<947>>>>, <<120749, "mapped", <<948>>>>,
    <<120750, "mapped", <<949>>>>, <<120751, "mapped", <<950>>>>, <<120752, "mapped", <<951>>>>,
    <<120753, "mapped", <<952>>>>, <<120754, "mapped", <<953>>>>, <<120755, "mapped", <<954>>>>,
    <<120756, "mapped", <<955>>>>, <<120757, "mapped", <<956>>>>, <<120758, "mapped", <<957>>>>,
    <<120759, "mapped", <<958>>>>, <<120760, "mapped", <<959>>>>, <<120761, "mapped", <<960>>>>,
    <<120762, "mapped", <<961>>>>, <<120763, "mapped", <<963>>>>, <<120765, "mapped", <<964>>>>,
    <<120766, "mapped", <<965>>>>, <<120767, "mapped", <<966>>>>, <<120768, "mapped", <<967>>>>,
    <<120769, "mapped", <<968>>>>, <<120770, "mapped", <<969>>>>, <<120771, "mapped", <<8706>>>>,
    <<120772, "mapped", <<949>>>>, <<120773, "mapped", <<952>>>>, <<120774, "mapped", <<954>>>>,
    <<120775, "mapped", <<966>>>>, <<120776, "mapped", <<961>>>>, <<120777, "mapped", <<960>>>>,
    <<120778, "mapped", <<989>>>>, <<120780, "disallowed", <<>>>>, <<120782, "mapped", <<48>>>>,
    <<120783, "mapped", <<49>>>>, <<120784, "mapped", <<50>>>>, <<120785, "mapped", <<51>>>>,
    <<120786, "mapped", <<52>>>>, <<120787, "mapped", <<53>>>>, <<120788, "mapped", <<54>>>>,
    <<120789, "mapped", <<55>>>>, <<120790, "mapped", <<56>>>>, <<120791, "mapped", <<57>>>>,
    <<120792, "mapped", <<48>>>>, <<120793, "mapped", <<49>>>>, <<120794, "mapped", <<50>>>>,
    <<120795, "mapped", <<51>>>>, <<120796, "mapped", <<52>>>>, <<120797, "mapped", <<53>>>>,
    <<120798, "mapped", <<54>>>>, <<120799, "mapped", <<55>>>>, <<120800, "mapped", <<56>>>>,
    <<120801, "mapped", <<57>>>>, <<120802, "mapped", <<48>>>>, <<120803, "mapped", <<49>>>>,
    <<120804, "mapped", <<50>>>>, <<120805, "mapped", <<51>>>>, <<120806, "mapped", <<52>>>>,
    <<120807, "mapped", <<53>>>>, <<120808, "mapped", <<54>>>>, <<120809, "mapped", <<55>>>>,
    <<120810, "mapped", <<56>>>>, <<120811, "mapped", <<57>>>>, <<120812, "mapped", <<48>>>>,
    <<120813, "mapped", <<49>>>>, <<120814, "mapped", <<50>>>>, <<120815, "mapped", <<51>>>>,
    <<120816, "mapped", <<52>>>>, <<120817, "mapped", <<53>>>>, <<120818, "mapped", <<54>>>>,
    <<120819, "mapped", <<55>>>>, <<120820, "mapped", <<56>>>>, <<120821, "mapped", <<57>>>>,
    <<120822, "mapped", <<48>>>>, <<120823, "mapped", <<49>>>>, <<120824, "mapped", <<50>>>>,
    <<120825, "mapped", <<51>>>>, <<120826, "mapped", <<52>>>>, <<120827, "mapped", <<53>>>>,
    <<120828, "mapped", <<54>>>>, <<120829, "mapped", <<55>>>>, <<120830, "mapped", <<56>>>>,
    <<120831, "mapped", <<57>>>>, <<120832, "valid", <<>>>>, <<121484, "disallowed", <<>>>>,
    <<121499, "valid", <<>>>>, <<121504, "disallowed", <<>>>>, <<121505, "valid", <<>>>>,
    <<121520, "disallowed", <<>>>>, <<122624, "valid", <<>>>>, <<122655, "disallowed", <<>>>>,
    <<122661, "valid", <<>>>>, <<122667, "disallowed", <<>>>>, <<122880, "valid", <<>>>>,
    <<122887, "disallowed", <<>>>>, <<122888, "valid", <<>>>>, <<122905, "disallowed", <<>>>>,
    <<122907, "valid", <<>>>>, <<122914, "disallowed", <<>>>>, <<122915, "valid", <<>>>>,
    <<122917, "disallowed", <<>>>>, <<122918, "valid", <<>>>>, <<122923, "disallowed", <<>>>>,
    <<122928, "mapped", <<1072>>>>, <<122929, "mapped", <<1073>>>>,
    <<122930, "mapped", <<1074>>>>, <<122931, "mapped", <<1075>>>>,
    <<122932, "mapped", <<1076>>>>, <<122933, "mapped", <<1077>>>>,
    <<122934, "mapped", <<1078>>>>, <<122935, "mapped", <<1079>>>>,
    <<122936, "mapped", <<1080>>>>, <<122937, "mapped", <<1082>>>>,
    <<122938, "mapped", <<1083>>>>, <<122939, "mapped", <<1084>>>>,
    <<122940, "mapped", <<1086>>>>, <<122941, "mapped", <<1087>>>>,
    <<122942, "mapped", <<1088>>>>, <<122943, "mapped", <<1089>>>>,
    <<122944, "mapped", <<1090>>>>, <<122945, "mapped", <<1091>>>>,
    <<122946, "mapped", <<1092>>>>, <<122947, "mapped", <<1093>>>>,
    <<122948, "mapped", <<1094>>>>, <<122949, "mapped", <<1095>>>>,
    <<122950, "mapped", <<1096>>>>, <<122951, "mapped", <<1099>>>>,
    <<122952, "mapped", <<1101>>>>, <<122953, "mapped", <<1102>>>>,
    <<122954, "mapped", <<42633>>>>, <<122955, "mapped", <<1241>>>>,
    <<122956, "mapped", <<1110>>>>, <<122957, "mapped", <<1112>>>>,
    <<122958, "mapped", <<1257>>>>, <<122959, "mapped", <<1199>>>>,
    <<122960, "mapped", <<1231>>>>, <<122961, "mapped", <<1072>>>>,
    <<122962, "mapped", <<1073>>>>, <<122963, "mapped", <<1074>>>>,
    <<122964, "mapped", <<1075>>>>, <<122965, "mapped", <<1076>>>>,
    <<122966, "mapped", <<1077>>>>, <<122967, "mapped", <<1078>>>>,
    <<122968, "mapped", <<1079>>>>, <<122969, "mapped", <<1080>>>>,
    <<122970, "mapped", <<1082>>>>, <<122971, "mapped", <<1083>>>>,
    <<122972, "mapped", <<1086>>>>, <<122973, "mapped", <<1087>>>>,
    <<122974, "mapped", <<1089>>>>, <<122975, "mapped", <<1091>>>>,
    <<122976, "mapped", <<1092>>>>, <<122977, "mapped", <<1093>>>>,
    <<122978, "mapped", <<1094>>>>, <<122979, "mapped", <<1095>>>>,
    <<122980, "mapped", <<1096>>>>, <<122981, "mapped", <<1098>>>>,
    <<122982, "mapped", <<1099>>>>, <<122983, "mapped", <<1169>>>>,
    <<122984, "mapped", <<1110>>>>, <<122985, "mapped", <<1109>>>>,
    <<122986, "mapped", <<1119>>>>, <<122987, "mapped", <<1195>>>>,
    <<122988, "mapped", <<42577>>>>, <<122989, "mapped", <<1201>>>>,
    <<122990, "disallowed", <<>>>>, <<123023, "valid", <<>>>>, <<123024, "disallowed", <<>>>>,
    <<123136, "valid", <<>>>>, <<123181, "disallowed", <<>>>>, <<123184, "valid", <<>>>>,
    <<123198, "disallowed", <<>>>>, <<123200, "valid", <<>>>>, <<123210, "disallowed", <<>>>>,
    <<123214, "valid", <<>>>>, <<123216, "disallowed", <<>>>>, <<123536, "valid", <<>>>>,
    <<123567, "disallowed", <<>>>>, <<123584, "valid", <<>>>>, <<123642, "disallowed", <<>>>>,
    <<123647, "valid", <<>>>>, <<123648, "disallowed", <<>>>>, <<124112, "valid", <<>>>>,
    <<124154, "disallowed", <<>>>>, <<124896, "valid", <<>>>>, <<124903, "disallowed", <<>>>>,
    <<124904, "valid", <<>>>>, <<124908, "disallowed", <<>>>>, <<124909, "valid", <<>>>>,
    <<124911, "disallowed", <<>>>>, <<124912, "valid", <<>>>>, <<124927, "disallowed", <<>>>>,
    <<124928, "valid", <<>>>>, <<125125, "disallowed", <<>>>>, <<125127, "valid", <<>>>>,
    <<125143, "disallowed", <<>>>>, <<125184, "mapped", <<125218>>>>,
    <<125185, "mapped", <<125219>>>>, <<125186, "mapped", <<125220>>>>,
    <<125187, "mapped", <<125221>>>>, <<125188, "mapped", <<125222>>>>,
    <<125189, "mapped", <<125223>>>>, <<125190, "mapped", <<125224>>>>,
    <<125191, "mapped", <<125225>>>>, <<125192, "mapped", <<125226>>>>,
    <<125193, "mapped", <<125227>>>>, <<125194, "mapped", <<125228>>>>,
    <<125195, "mapped", <<125229>>>>, <<125196, "mapped", <<125230>>>>,
    <<125197, "mapped", <<125231>>>>, <<125198, "mapped", <<125232>>>>,
    <<125199, "mapped", <<125233>>>>, <<125200, "mapped", <<125234>>>>,
    <<125201, "mapped", <<125235>>>>, <<125202, "mapped", <<125236>>>>,
    <<125203, "mapped", <<125237>>>>, <<125204, "mapped", <<125238>>>>,
    <<125205, "mapped", <<125239>>>>, <<125206, "mapped", <<125240>>>>,
    <<125207, "mapped", <<125241>>>>, <<125208, "mapped", <<125242>>>>,
    <<125209, "mapped", <<125243>>>>, <<125210, "mapped", <<125244>>>>,
    <<125211, "mapped", <<125245>>>>, <<125212, "mapped", <<125246>>>>,
    <<125213, "mapped", <<125247>>>>, <<125214, "mapped", <<125248>>>>,
    <<125215, "mapped", <<125249>>>>, <<125216, "mapped", <<125250>>>>,
    <<125217, "mapped", <<125251>>>>, <<125218, "valid", <<>>>>, <<125260, "disallowed", <<>>>>,
    <<125264, "valid", <<>>>>, <<125274, "disallowed", <<>>>>, <<125278, "valid", <<>>>>,
    <<125280, "disallowed", <<>>>>, <<126065, "valid", <<>>>>, <<126133, "disallowed", <<>>>>,
    <<126209, "valid", <<>>>>, <<126270, "disallowed", <<>>>>, <<126464, "mapped", <<1575>>>>,
    <<126465, "mapped", <<1576>>>>, <<126466, "mapped", <<1580>>>>,
    <<126467, "mapped", <<1583>>>>, <<126468, "disallowed", <<>>>>,
    <<126469, "mapped", <<1608>>>>, <<126470, "mapped", <<1586>>>>,
    <<126471, "mapped", <<1581>>>>, <<126472, "mapped", <<1591>>>>,
    <<126473, "mapped", <<1610>>>>, <<126474, "mapped", <<1603>>>>,
    <<126475, "mapped", <<1604>>>>, <<126476, "mapped", <<1605>>>>,
    <<126477, "mapped", <<1606>>>>, <<126478, "mapped", <<1587>>>>,
    <<126479, "mapped", <<1593>>>>, <<126480, "mapped", <<1601>>>>,
    <<126481, "mapped", <<1589>>>>, <<126482, "mapped", <<1602>>>>,
    <<126483, "mapped", <<1585>>>>, <<126484, "mapped", <<1588>>>>,
    <<126485, "mapped", <<1578>>>>, <<126486, "mapped", <<1579>>>>,
    <<126487, "mapped", <<1582>>>>, <<126488, "mapped", <<1584>>>>,
    <<126489, "mapped", <<1590>>>>, <<126490, "mapped", <<1592>>>>,
    <<126491, "mapped", <<1594>>>>, <<126492, "mapped", <<1646>>>>,
    <<126493, "mapped", <<1722>>>>, <<126494, "mapped", <<1697>>>>,
    <<126495, "mapped", <<1647>>>>, <<126496, "disallowed", <<>>>>,
    <<126497, "mapped", <<1576>>>>, <<126498, "mapped", <<1580>>>>,
    <<126499, "disallowed", <<>>>>, <<126500, "mapped", <<1607>>>>,
    <<126501, "disallowed", <<>>>>, <<126503, "mapped", <<1581>>>>,
    <<126504, "disallowed", <<>>>>, <<126505, "mapped", <<1610>>>>,
    <<126506, "mapped", <<1603>>>>, <<126507, "mapped", <<1604>>>>,
    <<126508, "mapped", <<1605>>>>, <<126509, "mapped", <<1606>>>>,
    <<126510, "mapped", <<1587>>>>, <<126511, "mapped", <<1593>>>>,
    <<126512, "mapped", <<1601>>>>, <<126513, "mapped", <<1589>>>>,
    <<126514, "mapped", <<1602>>>>, <<126515, "disallowed", <<>>>>,
    <<126516, "mapped", <<1588>>>>, <<126517, "mapped", <<1578>>>>,
    <<126518, "mapped", <<1579>>>>, <<126519, "mapped", <<1582>>>>,
    <<126520, "disallowed", <<>>>>, <<126521, "mapped", <<1590>>>>,
    <<126522, "disallowed", <<>>>>, <<126523, "mapped", <<1594>>>>,
    <<126524, "disallowed", <<>>>>, <<126530, "mapped", <<1580>>>>,
    <<126531, "disallowed", <<>>>>, <<126535, "mapped", <<1581>>>>,
    <<126536, "disallowed", <<>>>>, <<126537, "mapped", <<1610>>>>,
    <<126538, "disallowed", <<>>>>, <<126539, "mapped", <<1604>>>>,
    <<126540, "disallowed", <<>>>>, <<126541, "mapped", <<1606>>>>,
    <<126542, "mapped", <<1587>>>>, <<126543, "mapped", <<1593>>>>,
    <<126544, "disallowed", <<>>>>, <<126545, "mapped", <<1589>>>>,
    <<126546, "mapped", <<1602>>>>, <<126547, "disallowed", <<>>>>,
    <<126548, "mapped", <<1588>>>>, <<126549, "disallowed", <<>>>>,
    <<126551, "mapped", <<1582>>>>, <<126552, "disallowed", <<>>>>,
    <<126553, "mapped", <<1590>>>>, <<126554, "disallowed", <<>>>>,
    <<126555, "mapped", <<1594>>>>, <<126556, "disallowed", <<>>>>,
    <<126557, "mapped", <<1722>>>>, <<126558, "disallowed", <<>>>>,
    <<126559, "mapped", <<1647>>>>, <<126560, "disallowed", <<>>>>,
    <<126561, "mapped", <<1576>>>>, <<126562, "mapped", <<1580>>>>,
    <<126563, "disallowed", <<>>>>, <<126564, "mapped", <<1607>>>>,
    <<126565, "disallowed", <<>>>>, <<126567, "mapped", <<1581>>>>,
    <<126568, "mapped", <<1591>>>>, <<126569, "mapped", <<1610>>>>,
    <<126570, "mapped", <<1603>>>>, <<126571, "disallowed", <<>>>>,
    <<126572, "mapped", <<1605>>>>, <<126573, "mapped", <<1606>>>>,
    <<126574, "mapped", <<1587>>>>, <<126575, "mapped", <<1593>>>>,
    <<126576, "mapped", <<1601>>>>, <<126577, "mapped", <<1589>>>>,
    <<126578, "mapped", <<1602>>>>, <<126579, "disallowed", <<>>>>,
    <<126580, "mapped", <<1588>>>>, <<126581, "mapped", <<1578>>>>,
    <<126582, "mapped", <<1579>>>>, <<126583, "mapped", <<1582>>>>,
    <<126584, "disallowed", <<>>>>, <<126585, "mapped", <<1590>>>>,
    <<126586, "mapped", <<1592>>>>, <<126587, "mapped", <<1594>>>>,
    <<126588, "mapped", <<1646>>>>, <<126589, "disallowed", <<>>>>,
    <<126590, "mapped", <<1697>>>>, <<126591, "disallowed", <<>>>>,
    <<126592, "mapped", <<1575>>>>, <<126593, "mapped", <<1576>>>>,
    <<126594, "mapped", <<1580>>>>, <<126595, "mapped", <<1583>>>>,
    <<126596, "mapped", <<1607>>>>, <<126597, "mapped", <<1608>>>>,
    <<126598, "mapped", <<1586>>>>, <<126599, "mapped", <<1581>>>>,
    <<126600, "mapped", <<1591>>>>, <<126601, "mapped", <<1610>>>>,
    <<126602, "disallowed", <<>>>>, <<126603, "mapped", <<1604>>>>,
    <<126604, "mapped", <<1605>>>>, <<126605, "mapped", <<1606>>>>,
    <<126606, "mapped", <<1587>>>>, <<126607, "mapped", <<1593>>>>,
    <<126608, "mapped", <<1601>>>>, <<126609, "mapped", <<1589>>>>,
    <<126610, "mapped", <<1602>>>>, <<126611, "mapped", <<1585>>>>,
    <<126612, "mapped", <<1588>>>>, <<126613, "mapped", <<1578>>>>,
    <<126614, "mapped", <<1579>>>>, <<126615, "mapped", <<1582>>>>,
    <<126616, "mapped", <<1584>>>>, <<126617, "mapped", <<1590>>>>,
    <<126618, "mapped", <<1592>>>>, <<126619, "mapped", <<1594>>>>,
    <<126620, "disallowed", <<>>>>, <<126625, "mapped", <<1576>>>>,
    <<126626, "mapped", <<1580>>>>, <<126627, "mapped", <<1583>>>>,
    <<126628, "disallowed", <<>>>>, <<126629, "mapped", <<1608>>>>,
    <<126630, "mapped", <<1586>>>>, <<126631, "mapped", <<1581>>>>,
    <<126632, "mapped", <<1591>>>>, <<126633, "mapped", <<1610>>>>,
    <<126634, "disallowed", <<>>>>, <<126635, "mapped", <<1604>>>>,
    <<126636, "mapped", <<1605>>>>, <<126637, "mapped", <<1606>>>>,
    <<126638, "mapped", <<1587>>>>, <<126639, "mapped", <<1593>>>>,
    <<126640, "mapped", <<1601>>>>, <<126641, "mapped", <<1589>>>>,
    <<126642, "mapped", <<1602>>>>, <<126643, "mapped", <<1585>>>>,
    <<126644, "mapped", <<1588>>>>, <<126645, "mapped", <<1578>>>>,
    <<126646, "mapped", <<1579>>>>, <<126647, "mapped", <<1582>>>>,
    <<126648, "mapped", <<1584>>>>, <<126649, "mapped", <<1590>>>>,
    <<126650, "mapped", <<1592>>>>, <<126651, "mapped", <<1594>>>>,
    <<126652, "disallowed", <<>>>>, <<126704, "valid", <<>>>>, <<126706, "disallowed", <<>>>>,
    <<126976, "valid", <<>>>>, <<127020, "disallowed", <<>>>>, <<127024, "valid", <<>>>>,
    <<127124, "disallowed", <<>>>>, <<127136, "valid", <<>>>>, <<127151, "disallowed", <<>>>>,
    <<127153, "valid", <<>>>>, <<127168, "disallowed", <<>>>>, <<127169, "valid", <<>>>>,
    <<127184, "disallowed", <<>>>>, <<127185, "valid", <<>>>>, <<127222, "disallowed", <<>>>>,
    <<127233, "mapped", <<48, 44>>>>, <<127234, "mapped", <<49, 44>>>>,
    <<127235, "mapped", <<50, 44>>>>, <<127236, "mapped", <<51, 44>>>>,
    <<127237, "mapped", <<52, 44>>>>, <<127238, "mapped", <<53, 44>>>>,
    <<127239, "mapped", <<54, 44>>>>, <<127240, "mapped", <<55, 44>>>>,
    <<127241, "mapped", <<56, 44>>>>, <<127242, "mapped", <<57, 44>>>>, <<127243, "valid", <<>>>>,
    <<127248, "mapped", <<40, 97, 41>>>>, <<127249, "mapped", <<40, 98, 41>>>>,
    <<127250, "mapped", <<40, 99, 41>>>>, <<127251, "mapped", <<40, 100, 41>>>>,
    <<127252, "mapped", <<40, 101, 41>>>>, <<127253, "mapped", <<40, 102, 41>>>>,
    <<127254, "mapped", <<40, 103, 41>>>>, <<127255, "mapped", <<40, 104, 41>>>>,
    <<127256, "mapped", <<40, 105, 41>>>>, <<127257, "mapped", <<40, 106, 41>>>>,
    <<127258, "mapped", <<40, 107, 41>>>>, <<127259, "mapped", <<40, 108, 41>>>>,
    <<127260, "mapped", <<40, 109, 41>>>>, <<127261, "mapped", <<40, 110, 41>>>>,
    <<127262, "mapped", <<40, 111, 41>>>>, <<127263, "mapped", <<40, 112, 41>>>>,
    <<127264, "mapped", <<40, 113, 41>>>>, <<127265, "mapped", <<40, 114, 41>>>>,
    <<127266, "mapped", <<40, 115, 41>>>>, <<127267, "mapped", <<40, 116, 41>>>>,
    <<127268, "mapped", <<40, 117, 41>>>>, <<127269, "mapped", <<40, 118, 41>>>>,
    <<127270, "mapped", <<40, 119, 41>>>>, <<127271, "mapped", <<40, 120, 41>>>>,
    <<127272, "mapped", <<40, 121, 41>>>>, <<127273, "mapped", <<40, 122, 41>>>>,
    <<127274, "mapped", <<12308, 115, 12309>>>>, <<127275, "mapped", <<99>>>>,
    <<127276, "mapped", <<114>>>>, <<127277, "mapped", <<99, 100>>>>,
    <<127278, "mapped", <<119, 122>>>>, <<127279, "valid", <<>>>>, <<127280, "mapped", <<97>>>>,
    <<127281, "mapped", <<98>>>>, <<127282, "mapped", <<99>>>>, <<127283, "mapped", <<100>>>>,
    <<127284, "mapped", <<101>>>>, <<127285, "mapped", <<102>>>>, <<127286, "mapped", <<103>>>>,
    <<127287, "mapped", <<104>>>>, <<127288, "mapped", <<105>>>>, <<127289, "mapped", <<106>>>>,
    <<127290, "mapped", <<107>>>>, <<127291, "mapped", <<108>>>>, <<127292, "mapped", <<109>>>>,
    <<127293, "mapped", <<110>>>>, <<127294, "mapped", <<111>>>>, <<127295, "mapped", <<112>>>>,
    <<127296, "mapped", <<113>>>>, <<127297, "mapped", <<114>>>>, <<127298, "mapped", <<115>>>>,
    <<127299, "mapped", <<116>>>>, <<127300, "mapped", <<117>>>>, <<127301, "mapped", <<118>>>>,
    <<127302, "mapped", <<119>>>>, <<127303, "mapped", <<120>>>>, <<127304, "mapped", <<121>>>>,
    <<127305, "mapped", <<122>>>>, <<127306, "mapped", <<104, 118>>>>,
    <<127307, "mapped", <<109, 118>>>>, <<127308, "mapped", <<115, 100>>>>,
    <<127309, "mapped", <<115, 115>>>>, <<127310, "mapped", <<112, 112, 118>>>>,
    <<127311, "mapped", <<119, 99>>>>, <<127312, "valid", <<>>>>,
    <<127338, "mapped", <<109, 99>>>>, <<127339, "mapped", <<109, 100>>>>,
    <<127340, "mapped", <<109, 114>>>>, <<127341, "valid", <<>>>>,
    <<127376, "mapped", <<100, 106>>>>, <<127377, "valid", <<>>>>, <<127406, "disallowed", <<>>>>,
    <<127462, "valid", <<>>>>, <<127488, "mapped", <<12411, 12363>>>>,
    <<127489, "mapped", <<12467, 12467>>>>, <<127490, "mapped", <<12469>>>>,
    <<127491, "disallowed", <<>>>>, <<127504, "mapped", <<25163>>>>,
    <<127505, "mapped", <<23383>>>>, <<127506, "mapped", <<21452>>>>,
    <<127507, "mapped", <<12487>>>>, <<127508, "mapped", <<20108>>>>,
    <<127509, "mapped", <<22810>>>>, <<127510, "mapped", <<35299>>>>,
    <<127511, "mapped", <<22825>>>>, <<127512, "mapped", <<20132>>>>,
    <<127513, "mapped", <<26144>>>>, <<127514, "mapped", <<28961>>>>,
    <<127515, "mapped", <<26009>>>>, <<127516, "mapped", <<21069>>>>,
    <<127517, "mapped", <<24460>>>>, <<127518, "mapped", <<20877>>>>,
    <<127519, "mapped", <<26032>>>>, <<127520, "mapped", <<21021>>>>,
    <<127521, "mapped", <<32066>>>>, <<127522, "mapped", <<29983>>>>,
    <<127523, "mapped", <<36009>>>>, <<127524, "mapped", <<22768>>>>,
    <<127525, "mapped", <<21561>>>>, <<127526, "mapped", <<28436>>>>,
    <<127527, "mapped", <<25237>>>>, <<127528, "mapped", <<25429>>>>,
    <<127529, "mapped", <<19968>>>>, <<127530, "mapped", <<19977>>>>,
    <<127531, "mapped", <<36938>>>>, <<127532, "mapped", <<24038>>>>,
    <<127533, "mapped", <<20013>>>>, <<127534, "mapped", <<21491>>>>,
    <<127535, "mapped", <<25351>>>>, <<127536, "mapped", <<36208>>>>,
    <<127537, "mapped", <<25171>>>>, <<127538, "mapped", <<31105>>>>,
    <<127539, "mapped", <<31354>>>>, <<127540, "mapped", <<21512>>>>,
    <<127541, "mapped", <<28288>>>>, <<127542, "mapped", <<26377>>>>,
    <<127543, "mapped", <<26376>>>>, <<127544, "mapped", <<30003>>>>,
    <<127545, "mapped", <<21106>>>>, <<127546, "mapped", <<21942>>>>,
    <<127547, "mapped", <<37197>>>>, <<127548, "disallowed", <<>>>>,
    <<127552, "mapped", <<12308, 26412, 12309>>>>, <<127553, "mapped", <<12308, 19977, 12309>>>>,
    <<127554, "mapped", <<12308, 20108, 12309>>>>, <<127555, "mapped", <<12308, 23433, 12309>>>>,
    <<127556, "mapped", <<12308, 28857, 12309>>>>, <<127557, "mapped", <<12308, 25171, 12309>>>>,
    <<127558, "mapped", <<12308, 30423, 12309>>>>, <<127559, "mapped", <<12308, 21213, 12309>>>>,
    <<127560, "mapped", <<12308, 25943, 12309>>>>, <<127561, "disallowed", <<>>>>,
    <<127568, "mapped", <<24471>>>>, <<127569, "mapped", <<21487>>>>,
    <<127570, "disallowed", <<>>>>, <<127584, "valid", <<>>>>, <<127590, "disallowed", <<>>>>,
    <<127744, "valid", <<>>>>, <<128728, "disallowed", <<>>>>, <<128732, "valid", <<>>>>,
    <<128749, "disallowed", <<>>>>, <<128752, "valid", <<>>>>, <<128765, "disallowed", <<>>>>,
    <<128768, "valid", <<>>>>, <<128887, "disallowed", <<>>>>, <<128891, "valid", <<>>>>,
    <<128986, "disallowed", <<>>>>, <<128992, "valid", <<>>>>, <<129004, "disallowed", <<>>>>,
    <<129008, "valid", <<>>>>, <<129009, "disallowed", <<>>>>, <<129024, "valid", <<>>>>,
    <<129036, "disallowed", <<>>>>, <<129040, "valid", <<>>>>, <<129096, "disallowed", <<>>>>,
    <<129104, "valid", <<>>>>, <<129114, "disallowed", <<>>>>, <<129120, "valid", <<>>>>,
    <<129160, "disallowed", <<>>>>, <<129168, "valid", <<>>>>, <<129198, "disallowed", <<>>>>,
    <<129200, "valid", <<>>>>, <<129202, "disallowed", <<>>>>, <<129280, "valid", <<>>>>,
    <<129620, "disallowed", <<>>>>, <<129632, "valid", <<>>>>, <<129646, "disallowed", <<>>>>,
    <<129648, "valid", <<>>>>, <<129661, "disallowed", <<>>>>, <<129664, "valid", <<>>>>,
    <<129673, "disallowed", <<>>>>, <<129680, "valid", <<>>>>, <<129726, "disallowed", <<>>>>,
    <<129727, "valid", <<>>>>, <<129734, "disallowed", <<>>>>, <<129742, "valid", <<>>>>,
    <<129756, "disallowed", <<>>>>, <<129760, "valid", <<>>>>, <<129769, "disallowed", <<>>>>,
    <<129776, "valid", <<>>>>, <<129785, "disallowed", <<>>>>, <<129792, "valid", <<>>>>,
    <<129939, "disallowed", <<>>>>, <<129940, "valid", <<>>>>, <<129995, "disallowed", <<>>>>,
    <<130032, "mapped", <<48>>>>, <<130033, "mapped", <<49>>>>, <<130034, "mapped", <<50>>>>,
    <<130035, "mapped", <<51>>>>, <<130036, "mapped", <<52>>>>, <<130037, "mapped", <<53>>>>,
    <<130038, "mapped", <<54>>>>, <<130039, "mapped", <<55>>>>, <<130040, "mapped", <<56>>>>,
    <<130041, "mapped", <<57>>>>, <<130042, "disallowed", <<>>>>, <<131072, "valid", <<>>>>,
    <<173792, "disallowed", <<>>>>, <<173824, "valid", <<>>>>, <<177978, "disallowed", <<>>>>,
    <<177984, "valid", <<>>>>, <<178206, "disallowed", <<>>>>, <<178208, "valid", <<>>>>,
    <<183970, "disallowed", <<>>>>, <<183984, "valid", <<>>>>, <<191457, "disallowed", <<>>>>,
    <<194560, "mapped", <<20029>>>>, <<194561, "mapped", <<20024>>>>,
    <<194562, "mapped", <<20033>>>>, <<194563, "mapped", <<131362>>>>,
    <<194564, "mapped", <<20320>>>>, <<194565, "mapped", <<20398>>>>,
    <<194566, "mapped", <<20411>>>>, <<194567, "mapped", <<20482>>>>,
    <<194568, "mapped", <<20602>>>>, <<194569, "mapped", <<20633>>>>,
    <<194570, "mapped", <<20711>>>>, <<194571, "mapped", <<20687>>>>,
    <<194572, "mapped", <<13470>>>>, <<194573, "mapped", <<132666>>>>,
    <<194574, "mapped", <<20813>>>>, <<194575, "mapped", <<20820>>>>,
    <<194576, "mapped", <<20836>>>>, <<194577, "mapped", <<20855>>>>,
    <<194578, "mapped", <<132380>>>>, <<194579, "mapped", <<13497>>>>,
    <<194580, "mapped", <<20839>>>>, <<194581, "mapped", <<20877>>>>,
    <<194582, "mapped", <<132427>>>>, <<194583, "mapped", <<20887>>>>,
    <<194584, "mapped", <<20900>>>>, <<194585, "mapped", <<20172>>>>,
    <<194586, "mapped", <<20908>>>>, <<194587, "mapped", <<20917>>>>,
    <<194588, "mapped", <<168415>>>>, <<194589, "mapped", <<20981>>>>,
    <<194590, "mapped", <<20995>>>>, <<194591, "mapped", <<13535>>>>,
    <<194592, "mapped", <<21051>>>>, <<194593, "mapped", <<21062>>>>,
    <<194594, "mapped", <<21106>>>>, <<194595, "mapped", <<21111>>>>,
    <<194596, "mapped", <<13589>>>>, <<194597, "mapped", <<21191>>>>,
    <<194598, "mapped", <<21193>>>>, <<194599, "mapped", <<21220>>>>,
    <<194600, "mapped", <<21242>>>>, <<194601, "mapped", <<21253>>>>,
    <<194602, "mapped", <<21254>>>>, <<194603, "mapped", <<21271>>>>,
    <<194604, "mapped", <<21321>>>>, <<194605, "mapped", <<21329>>>>,
    <<194606, "mapped", <<21338>>>>, <<194607, "mapped", <<21363>>>>,
    <<194608, "mapped", <<21373>>>>, <<194609, "mapped", <<21375>>>>,
    <<194612, "mapped", <<133676>>>>, <<194613, "mapped", <<28784>>>>,
    <<194614, "mapped", <<21450>>>>, <<194615, "mapped", <<21471>>>>,
    <<194616, "mapped", <<133987>>>>, <<194617, "mapped", <<21483>>>>,
    <<194618, "mapped", <<21489>>>>, <<194619, "mapped", <<21510>>>>,
    <<194620, "mapped", <<21662>>>>, <<194621, "mapped", <<21560>>>>,
    <<194622, "mapped", <<21576>>>>, <<194623, "mapped", <<21608>>>>,
    <<194624, "mapped", <<21666>>>>, <<194625, "mapped", <<21750>>>>,
    <<194626, "mapped", <<21776>>>>, <<194627, "mapped", <<21843>>>>,
    <<194628, "mapped", <<21859>>>>, <<194629, "mapped", <<21892>>>>,
    <<194631, "mapped", <<21913>>>>, <<194632, "mapped", <<21931>>>>,
    <<194633, "mapped", <<21939>>>>, <<194634, "mapped", <<21954>>>>,
    <<194635, "mapped", <<22294>>>>, <<194636, "mapped", <<22022>>>>,
    <<194637, "mapped", <<22295>>>>, <<194638, "mapped", <<22097>>>>,
    <<194639, "mapped", <<22132>>>>, <<194640, "mapped", <<20999>>>>,
    <<194641, "mapped", <<22766>>>>, <<194642, "mapped", <<22478>>>>,
    <<194643, "mapped", <<22516>>>>, <<194644, "mapped", <<22541>>>>,
    <<194645, "mapped", <<22411>>>>, <<194646, "mapped", <<22578>>>>,
    <<194647, "mapped", <<22577>>>>, <<194648, "mapped", <<22700>>>>,
    <<194649, "mapped", <<136420>>>>, <<194650, "mapped", <<22770>>>>,
    <<194651, "mapped", <<22775>>>>, <<194652, "mapped", <<22790>>>>,
    <<194653, "mapped", <<22810>>>>, <<194654, "mapped", <<22818>>>>,
    <<194655, "mapped", <<22882>>>>, <<194656, "mapped", <<136872>>>>,
    <<194657, "mapped", <<136938>>>>, <<194658, "mapped", <<23020>>>>,
    <<194659, "mapped", <<23067>>>>, <<194660, "mapped", <<23079>>>>,
    <<194661, "mapped", <<23000>>>>, <<194662, "mapped", <<23142>>>>,
    <<194663, "mapped", <<14062>>>>, <<194664, "disallowed", <<>>>>,
    <<194665, "mapped", <<23304>>>>, <<194666, "mapped", <<23358>>>>,
    <<194668, "mapped", <<137672>>>>, <<194669, "mapped", <<23491>>>>,
    <<194670, "mapped", <<23512>>>>, <<194671, "mapped", <<23527>>>>,
    <<194672, "mapped", <<23539>>>>, <<194673, "mapped", <<138008>>>>,
    <<194674, "mapped", <<23551>>>>, <<194675, "mapped", <<23558>>>>,
    <<194676, "disallowed", <<>>>>, <<194677, "mapped", <<23586>>>>,
    <<194678, "mapped", <<14209>>>>, <<194679, "mapped", <<23648>>>>,
    <<194680, "mapped", <<23662>>>>, <<194681, "mapped", <<23744>>>>,
    <<194682, "mapped", <<23693>>>>, <<194683, "mapped", <<138724>>>>,
    <<194684, "mapped", <<23875>>>>, <<194685, "mapped", <<138726>>>>,
    <<194686, "mapped", <<23918>>>>, <<194687, "mapped", <<23915>>>>,
    <<194688, "mapped", <<23932>>>>, <<194689, "mapped", <<24033>>>>,
    <<194690, "mapped", <<24034>>>>, <<194691, "mapped", <<14383>>>>,
    <<194692, "mapped", <<24061>>>>, <<194693, "mapped", <<24104>>>>,
    <<194694, "mapped", <<24125>>>>, <<194695, "mapped", <<24169>>>>,
    <<194696, "mapped", <<14434>>>>, <<194697, "mapped", <<139651>>>>,
    <<194698, "mapped", <<14460>>>>, <<194699, "mapped", <<24240>>>>,
    <<194700, "mapped", <<24243>>>>, <<194701, "mapped", <<24246>>>>,
    <<194702, "mapped", <<24266>>>>, <<194703, "mapped", <<172946>>>>,
    <<194704, "mapped", <<24318>>>>, <<194705, "mapped", <<140081>>>>,
    <<194707, "mapped", <<33281>>>>, <<194708, "mapped", <<24354>>>>,
    <<194710, "mapped", <<14535>>>>, <<194711, "mapped", <<144056>>>>,
    <<194712, "mapped", <<156122>>>>, <<194713, "mapped", <<24418>>>>,
    <<194714, "mapped", <<24427>>>>, <<194715, "mapped", <<14563>>>>,
    <<194716, "mapped", <<24474>>>>, <<194717, "mapped", <<24525>>>>,
    <<194718, "mapped", <<24535>>>>, <<194719, "mapped", <<24569>>>>,
    <<194720, "mapped", <<24705>>>>, <<194721, "mapped", <<14650>>>>,
    <<194722, "mapped", <<14620>>>>, <<194723, "mapped", <<24724>>>>,
    <<194724, "mapped", <<141012>>>>, <<194725, "mapped", <<24775>>>>,
    <<194726, "mapped", <<24904>>>>, <<194727, "mapped", <<24908>>>>,
    <<194728, "mapped", <<24910>>>>, <<194729, "mapped", <<24908>>>>,
    <<194730, "mapped", <<24954>>>>, <<194731, "mapped", <<24974>>>>,
    <<194732, "mapped", <<25010>>>>, <<194733, "mapped", <<24996>>>>,
    <<194734, "mapped", <<25007>>>>, <<194735, "mapped", <<25054>>>>,
    <<194736, "mapped", <<25074>>>>, <<194737, "mapped", <<25078>>>>,
    <<194738, "mapped", <<25104>>>>, <<194739, "mapped", <<25115>>>>,
    <<194740, "mapped", <<25181>>>>, <<194741, "mapped", <<25265>>>>,
    <<194742, "mapped", <<25300>>>>, <<194743, "mapped", <<25424>>>>,
    <<194744, "mapped", <<142092>>>>, <<194745, "mapped", <<25405>>>>,
    <<194746, "mapped", <<25340>>>>, <<194747, "mapped", <<25448>>>>,
    <<194748, "mapped", <<25475>>>>, <<194749, "mapped", <<25572>>>>,
    <<194750, "mapped", <<142321>>>>, <<194751, "mapped", <<25634>>>>,
    <<194752, "mapped", <<25541>>>>, <<194753, "mapped", <<25513>>>>,
    <<194754, "mapped", <<14894>>>>, <<194755, "mapped", <<25705>>>>,
    <<194756, "mapped", <<25726>>>>, <<194757, "mapped", <<25757>>>>,
    <<194758, "mapped", <<25719>>>>, <<194759, "mapped", <<14956>>>>,
    <<194760, "mapped", <<25935>>>>, <<194761, "mapped", <<25964>>>>,
    <<194762, "mapped", <<143370>>>>, <<194763, "mapped", <<26083>>>>,
    <<194764, "mapped", <<26360>>>>, <<194765, "mapped", <<26185>>>>,
    <<194766, "mapped", <<15129>>>>, <<194767, "mapped", <<26257>>>>,
    <<194768, "mapped", <<15112>>>>, <<194769, "mapped", <<15076>>>>,
    <<194770, "mapped", <<20882>>>>, <<194771, "mapped", <<20885>>>>,
    <<194772, "mapped", <<26368>>>>, <<194773, "mapped", <<26268>>>>,
    <<194774, "mapped", <<32941>>>>, <<194775, "mapped", <<17369>>>>,
    <<194776, "mapped", <<26391>>>>, <<194777, "mapped", <<26395>>>>,
    <<194778, "mapped", <<26401>>>>, <<194779, "mapped", <<26462>>>>,
    <<194780, "mapped", <<26451>>>>, <<194781, "mapped", <<144323>>>>,
    <<194782, "mapped", <<15177>>>>, <<194783, "mapped", <<26618>>>>,
    <<194784, "mapped", <<26501>>>>, <<194785, "mapped", <<26706>>>>,
    <<194786, "mapped", <<26757>>>>, <<194787, "mapped", <<144493>>>>,
    <<194788, "mapped", <<26766>>>>, <<194789, "mapped", <<26655>>>>,
    <<194790, "mapped", <<26900>>>>, <<194791, "mapped", <<15261>>>>,
    <<194792, "mapped", <<26946>>>>, <<194793, "mapped", <<27043>>>>,
    <<194794, "mapped", <<27114>>>>, <<194795, "mapped", <<27304>>>>,
    <<194796, "mapped", <<145059>>>>, <<194797, "mapped", <<27355>>>>,
    <<194798, "mapped", <<15384>>>>, <<194799, "mapped", <<27425>>>>,
    <<194800, "mapped", <<145575>>>>, <<194801, "mapped", <<27476>>>>,
    <<194802, "mapped", <<15438>>>>, <<194803, "mapped", <<27506>>>>,
    <<194804, "mapped", <<27551>>>>, <<194805, "mapped", <<27578>>>>,
    <<194806, "mapped", <<27579>>>>, <<194807, "mapped", <<146061>>>>,
    <<194808, "mapped", <<138507>>>>, <<194809, "mapped", <<146170>>>>,
    <<194810, "mapped", <<27726>>>>, <<194811, "mapped", <<146620>>>>,
    <<194812, "mapped", <<27839>>>>, <<194813, "mapped", <<27853>>>>,
    <<194814, "mapped", <<27751>>>>, <<194815, "mapped", <<27926>>>>,
    <<194816, "mapped", <<27966>>>>, <<194817, "mapped", <<28023>>>>,
    <<194818, "mapped", <<27969>>>>, <<194819, "mapped", <<28009>>>>,
    <<194820, "mapped", <<28024>>>>, <<194821, "mapped", <<28037>>>>,
    <<194822, "mapped", <<146718>>>>, <<194823, "mapped", <<27956>>>>,
    <<194824, "mapped", <<28207>>>>, <<194825, "mapped", <<28270>>>>,
    <<194826, "mapped", <<15667>>>>, <<194827, "mapped", <<28363>>>>,
    <<194828, "mapped", <<28359>>>>, <<194829, "mapped", <<147153>>>>,
    <<194830, "mapped", <<28153>>>>, <<194831, "mapped", <<28526>>>>,
    <<194832, "mapped", <<147294>>>>, <<194833, "mapped", <<147342>>>>,
    <<194834, "mapped", <<28614>>>>, <<194835, "mapped", <<28729>>>>,
    <<194836, "mapped", <<28702>>>>, <<194837, "mapped", <<28699>>>>,
    <<194838, "mapped", <<15766>>>>, <<194839, "mapped", <<28746>>>>,
    <<194840, "mapped", <<28797>>>>, <<194841, "mapped", <<28791>>>>,
    <<194842, "mapped", <<28845>>>>, <<194843, "mapped", <<132389>>>>,
    <<194844, "mapped", <<28997>>>>, <<194845, "mapped", <<148067>>>>,
    <<194846, "mapped", <<29084>>>>, <<194847, "disallowed", <<>>>>,
    <<194848, "mapped", <<29224>>>>, <<194849, "mapped", <<29237>>>>,
    <<194850, "mapped", <<29264>>>>, <<194851, "mapped", <<149000>>>>,
    <<194852, "mapped", <<29312>>>>, <<194853, "mapped", <<29333>>>>,
    <<194854, "mapped", <<149301>>>>, <<194855, "mapped", <<149524>>>>,
    <<194856, "mapped", <<29562>>>>, <<194857, "mapped", <<29579>>>>,
    <<194858, "mapped", <<16044>>>>, <<194859, "mapped", <<29605>>>>,
    <<194860, "mapped", <<16056>>>>, <<194862, "mapped", <<29767>>>>,
    <<194863, "mapped", <<29788>>>>, <<194864, "mapped", <<29809>>>>,
    <<194865, "mapped", <<29829>>>>, <<194866, "mapped", <<29898>>>>,
    <<194867, "mapped", <<16155>>>>, <<194868, "mapped", <<29988>>>>,
    <<194869, "mapped", <<150582>>>>, <<194870, "mapped", <<30014>>>>,
    <<194871, "mapped", <<150674>>>>, <<194872, "mapped", <<30064>>>>,
    <<194873, "mapped", <<139679>>>>, <<194874, "mapped", <<30224>>>>,
    <<194875, "mapped", <<151457>>>>, <<194876, "mapped", <<151480>>>>,
    <<194877, "mapped", <<151620>>>>, <<194878, "mapped", <<16380>>>>,
    <<194879, "mapped", <<16392>>>>, <<194880, "mapped", <<30452>>>>,
    <<194881, "mapped", <<151795>>>>, <<194882, "mapped", <<151794>>>>,
    <<194883, "mapped", <<151833>>>>, <<194884, "mapped", <<151859>>>>,
    <<194885, "mapped", <<30494>>>>, <<194886, "mapped", <<30495>>>>,
    <<194888, "mapped", <<30538>>>>, <<194889, "mapped", <<16441>>>>,
    <<194890, "mapped", <<30603>>>>, <<194891, "mapped", <<16454>>>>,
    <<194892, "mapped", <<16534>>>>, <<194893, "mapped", <<152605>>>>,
    <<194894, "mapped", <<30798>>>>, <<194895, "mapped", <<30860>>>>,
    <<194896, "mapped", <<30924>>>>, <<194897, "mapped", <<16611>>>>,
    <<194898, "mapped", <<153126>>>>, <<194899, "mapped", <<31062>>>>,
    <<194900, "mapped", <<153242>>>>, <<194901, "mapped", <<153285>>>>,
    <<194902, "mapped", <<31119>>>>, <<194903, "mapped", <<31211>>>>,
    <<194904, "mapped", <<16687>>>>, <<194905, "mapped", <<31296>>>>,
    <<194906, "mapped", <<31306>>>>, <<194907, "mapped", <<31311>>>>,
    <<194908, "mapped", <<153980>>>>, <<194909, "mapped", <<154279>>>>,
    <<194911, "disallowed", <<>>>>, <<194912, "mapped", <<16898>>>>,
    <<194913, "mapped", <<154539>>>>, <<194914, "mapped", <<31686>>>>,
    <<194915, "mapped", <<31689>>>>, <<194916, "mapped", <<16935>>>>,
    <<194917, "mapped", <<154752>>>>, <<194918, "mapped", <<31954>>>>,
    <<194919, "mapped", <<17056>>>>, <<194920, "mapped", <<31976>>>>,
    <<194921, "mapped", <<31971>>>>, <<194922, "mapped", <<32000>>>>,
    <<194923, "mapped", <<155526>>>>, <<194924, "mapped", <<32099>>>>,
    <<194925, "mapped", <<17153>>>>, <<194926, "mapped", <<32199>>>>,
    <<194927, "mapped", <<32258>>>>, <<194928, "mapped", <<32325>>>>,
    <<194929, "mapped", <<17204>>>>, <<194930, "mapped", <<156200>>>>,
    <<194931, "mapped", <<156231>>>>, <<194932, "mapped", <<17241>>>>,
    <<194933, "mapped", <<156377>>>>, <<194934, "mapped", <<32634>>>>,
    <<194935, "mapped", <<156478>>>>, <<194936, "mapped", <<32661>>>>,
    <<194937, "mapped", <<32762>>>>, <<194938, "mapped", <<32773>>>>,
    <<194939, "mapped", <<156890>>>>, <<194940, "mapped", <<156963>>>>,
    <<194941, "mapped", <<32864>>>>, <<194942, "mapped", <<157096>>>>,
    <<194943, "mapped", <<32880>>>>, <<194944, "mapped", <<144223>>>>,
    <<194945, "mapped", <<17365>>>>, <<194946, "mapped", <<32946>>>>,
    <<194947, "mapped", <<33027>>>>, <<194948, "mapped", <<17419>>>>,
    <<194949, "mapped", <<33086>>>>, <<194950, "mapped", <<23221>>>>,
    <<194951, "mapped", <<157607>>>>, <<194952, "mapped", <<157621>>>>,
    <<194953, "mapped", <<144275>>>>, <<194954, "mapped", <<144284>>>>,
    <<194955, "mapped", <<33281>>>>, <<194956, "mapped", <<33284>>>>,
    <<194957, "mapped", <<36766>>>>, <<194958, "mapped", <<17515>>>>,
    <<194959, "mapped", <<33425>>>>, <<194960, "mapped", <<33419>>>>,
    <<194961, "mapped", <<33437>>>>, <<194962, "mapped", <<21171>>>>,
    <<194963, "mapped", <<33457>>>>, <<194964, "mapped", <<33459>>>>,
    <<194965, "mapped", <<33469>>>>, <<194966, "mapped", <<33510>>>>,
    <<194967, "mapped", <<158524>>>>, <<194968, "mapped", <<33509>>>>,
    <<194969, "mapped", <<33565>>>>, <<194970, "mapped", <<33635>>>>,
    <<194971, "mapped", <<33709>>>>, <<194972, "mapped", <<33571>>>>,
    <<194973, "mapped", <<33725>>>>, <<194974, "mapped", <<33767>>>>,
    <<194975, "mapped", <<33879>>>>, <<194976, "mapped", <<33619>>>>,
    <<194977, "mapped", <<33738>>>>, <<194978, "mapped", <<33740>>>>,
    <<194979, "mapped", <<33756>>>>, <<194980, "mapped", <<158774>>>>,
    <<194981, "mapped", <<159083>>>>, <<194982, "mapped", <<158933>>>>,
    <<194983, "mapped", <<17707>>>>, <<194984, "mapped", <<34033>>>>,
    <<194985, "mapped", <<34035>>>>, <<194986, "mapped", <<34070>>>>,
    <<194987, "mapped", <<160714>>>>, <<194988, "mapped", <<34148>>>>,
    <<194989, "mapped", <<159532>>>>, <<194990, "mapped", <<17757>>>>,
    <<194991, "mapped", <<17761>>>>, <<194992, "mapped", <<159665>>>>,
    <<194993, "mapped", <<159954>>>>, <<194994, "mapped", <<17771>>>>,
    <<194995, "mapped", <<34384>>>>, <<194996, "mapped", <<34396>>>>,
    <<194997, "mapped", <<34407>>>>, <<194998, "mapped", <<34409>>>>,
    <<194999, "mapped", <<34473>>>>, <<195000, "mapped", <<34440>>>>,
    <<195001, "mapped", <<34574>>>>, <<195002, "mapped", <<34530>>>>,
    <<195003, "mapped", <<34681>>>>, <<195004, "mapped", <<34600>>>>,
    <<195005, "mapped", <<34667>>>>, <<195006, "mapped", <<34694>>>>,
    <<195007, "disallowed", <<>>>>, <<195008, "mapped", <<34785>>>>,
    <<195009, "mapped", <<34817>>>>, <<195010, "mapped", <<17913>>>>,
    <<195011, "mapped", <<34912>>>>, <<195012, "mapped", <<34915>>>>,
    <<195013, "mapped", <<161383>>>>, <<195014, "mapped", <<35031>>>>,
    <<195015, "mapped", <<35038>>>>, <<195016, "mapped", <<17973>>>>,
    <<195017, "mapped", <<35066>>>>, <<195018, "mapped", <<13499>>>>,
    <<195019, "mapped", <<161966>>>>, <<195020, "mapped", <<162150>>>>,
    <<195021, "mapped", <<18110>>>>, <<195022, "mapped", <<18119>>>>,
    <<195023, "mapped", <<35488>>>>, <<195024, "mapped", <<35565>>>>,
    <<195025, "mapped", <<35722>>>>, <<195026, "mapped", <<35925>>>>,
    <<195027, "mapped", <<162984>>>>, <<195028, "mapped", <<36011>>>>,
    <<195029, "mapped", <<36033>>>>, <<195030, "mapped", <<36123>>>>,
    <<195031, "mapped", <<36215>>>>, <<195032, "mapped", <<163631>>>>,
    <<195033, "mapped", <<133124>>>>, <<195034, "mapped", <<36299>>>>,
    <<195035, "mapped", <<36284>>>>, <<195036, "mapped", <<36336>>>>,
    <<195037, "mapped", <<133342>>>>, <<195038, "mapped", <<36564>>>>,
    <<195039, "mapped", <<36664>>>>, <<195040, "mapped", <<165330>>>>,
    <<195041, "mapped", <<165357>>>>, <<195042, "mapped", <<37012>>>>,
    <<195043, "mapped", <<37105>>>>, <<195044, "mapped", <<37137>>>>,
    <<195045, "mapped", <<165678>>>>, <<195046, "mapped", <<37147>>>>,
    <<195047, "mapped", <<37432>>>>, <<195048, "mapped", <<37591>>>>,
    <<195049, "mapped", <<37592>>>>, <<195050, "mapped", <<37500>>>>,
    <<195051, "mapped", <<37881>>>>, <<195052, "mapped", <<37909>>>>,
    <<195053, "mapped", <<166906>>>>, <<195054, "mapped", <<38283>>>>,
    <<195055, "mapped", <<18837>>>>, <<195056, "mapped", <<38327>>>>,
    <<195057, "mapped", <<167287>>>>, <<195058, "mapped", <<18918>>>>,
    <<195059, "mapped", <<38595>>>>, <<195060, "mapped", <<23986>>>>,
    <<195061, "mapped", <<38691>>>>, <<195062, "mapped", <<168261>>>>,
    <<195063, "mapped", <<168474>>>>, <<195064, "mapped", <<19054>>>>,
    <<195065, "mapped", <<19062>>>>, <<195066, "mapped", <<38880>>>>,
    <<195067, "mapped", <<168970>>>>, <<195068, "mapped", <<19122>>>>,
    <<195069, "mapped", <<169110>>>>, <<195070, "mapped", <<38923>>>>,
    <<195072, "mapped", <<38953>>>>, <<195073, "mapped", <<169398>>>>,
    <<195074, "mapped", <<39138>>>>, <<195075, "mapped", <<19251>>>>,
    <<195076, "mapped", <<39209>>>>, <<195077, "mapped", <<39335>>>>,
    <<195078, "mapped", <<39362>>>>, <<195079, "mapped", <<39422>>>>,
    <<195080, "mapped", <<19406>>>>, <<195081, "mapped", <<170800>>>>,
    <<195082, "mapped", <<39698>>>>, <<195083, "mapped", <<40000>>>>,
    <<195084, "mapped", <<40189>>>>, <<195085, "mapped", <<19662>>>>,
    <<195086, "mapped", <<19693>>>>, <<195087, "mapped", <<40295>>>>,
    <<195088, "mapped", <<172238>>>>, <<195089, "mapped", <<19704>>>>,
    <<195090, "mapped", <<172293>>>>, <<195091, "mapped", <<172558>>>>,
    <<195092, "mapped", <<172689>>>>, <<195093, "mapped", <<40635>>>>,
    <<195094, "mapped", <<19798>>>>, <<195095, "mapped", <<40697>>>>,
    <<195096, "mapped", <<40702>>>>, <<195097, "mapped", <<40709>>>>,
    <<195098, "mapped", <<40719>>>>, <<195099, "mapped", <<40726>>>>,
    <<195100, "mapped", <<40763>>>>, <<195101, "mapped", <<173568>>>>,
    <<195102, "disallowed", <<>>>>, <<196608, "valid", <<>>>>, <<201547, "disallowed", <<>>>>,
    <<201552, "valid", <<>>>>, <<205744, "disallowed", <<>>>>, <<917760, "ignored", <<>>>>,
    <<918000, "disallowed", <<>>>>>>

\* is_label_valid, combining: General_Category is Mark (Mn, Mc or Me),
\* <<first code point, whether>>
GeneralCategoryMark == <<
    <<0, FALSE>>, <<768, TRUE>>, <<880, FALSE>>, <<1155, TRUE>>, <<1162, FALSE>>, <<1425, TRUE>>,
    <<1470, FALSE>>, <<1471, TRUE>>, <<1472, FALSE>>, <<1473, TRUE>>, <<1475, FALSE>>,
    <<1476, TRUE>>, <<1478, FALSE>>, <<1479, TRUE>>, <<1480, FALSE>>, <<1552, TRUE>>,
    <<1563, FALSE>>, <<1611, TRUE>>, <<1632, FALSE>>, <<1648, TRUE>>, <<1649, FALSE>>,
    <<1750, TRUE>>, <<1757, FALSE>>, <<1759, TRUE>>, <<1765, FALSE>>, <<1767, TRUE>>,
    <<1769, FALSE>>, <<1770, TRUE>>, <<1774, FALSE>>, <<1809, TRUE>>, <<1810, FALSE>>,
    <<1840, TRUE>>, <<1867, FALSE>>, <<1958, TRUE>>, <<1969, FALSE>>, <<2027, TRUE>>,
    <<2036, FALSE>>, <<2045, TRUE>>, <<2046, FALSE>>, <<2070, TRUE>>, <<2074, FALSE>>,
    <<2075, TRUE>>, <<2084, FALSE>>, <<2085, TRUE>>, <<2088, FALSE>>, <<2089, TRUE>>,
    <<2094, FALSE>>, <<2137, TRUE>>, <<2140, FALSE>>, <<2259, TRUE>>, <<2274, FALSE>>,
    <<2275, TRUE>>, <<2308, FALSE>>, <<2362, TRUE>>, <<2365, FALSE>>, <<2366, TRUE>>,
    <<2384, FALSE>>, <<2385, TRUE>>, <<2392, FALSE>>, <<2402, TRUE>>, <<2404, FALSE>>,
    <<2433, TRUE>>, <<2436, FALSE>>, <<2492, TRUE>>, <<2493, FALSE>>, <<2494, TRUE>>,
    <<2501, FALSE>>, <<2503, TRUE>>, <<2505, FALSE>>, <<2507, TRUE>>, <<2510, FALSE>>,
    <<2519, TRUE>>, <<2520, FALSE>>, <<2530, TRUE>>, <<2532, FALSE>>, <<2558, TRUE>>,
    <<2559, FALSE>>, <<2561, TRUE>>, <<2564, FALSE>>, <<2620, TRUE>>, <<2621, FALSE>>,
    <<2622, TRUE>>, <<2627, FALSE>>, <<2631, TRUE>>, <<2633, FALSE>>, <<2635, TRUE>>,
    <<2638, FALSE>>, <<2641, TRUE>>, <<2642, FALSE>>, <<2672, TRUE>>, <<2674, FALSE>>,
    <<2677, TRUE>>, <<2678, FALSE>>, <<2689, TRUE>>, <<2692, FALSE>>, <<2748, TRUE>>,
    <<2749, FALSE>>, <<2750, TRUE>>, <<2758, FALSE>>, <<2759, TRUE>>, <<2762, FALSE>>,
    <<2763, TRUE>>, <<2766, FALSE>>, <<2786, TRUE>>, <<2788, FALSE>>, <<2810, TRUE>>,
    <<2816, FALSE>>, <<2817, TRUE>>, <<2820, FALSE>>, <<2876, TRUE>>, <<2877, FALSE>>,
    <<2878, TRUE>>, <<2885, FALSE>>, <<2887, TRUE>>, <<2889, FALSE>>, <<2891, TRUE>>,
    <<2894, FALSE>>, <<2901, TRUE>>, <<2904, FALSE>>, <<2914, TRUE>>, <<2916, FALSE>>,
    <<2946, TRUE>>, <<2947, FALSE>>, <<3006, TRUE>>, <<3011, FALSE>>, <<3014, TRUE>>,
    <<3017, FALSE>>, <<3018, TRUE>>, <<3022, FALSE>>, <<3031, TRUE>>, <<3032, FALSE>>,
    <<3072, TRUE>>, <<3077, FALSE>>, <<3134, TRUE>>, <<3141, FALSE>>, <<3142, TRUE>>,
    <<3145, FALSE>>, <<3146, TRUE>>, <<3150, FALSE>>, <<3157, TRUE>>, <<3159, FALSE>>,
    <<3170, TRUE>>, <<3172, FALSE>>, <<3201, TRUE>>, <<3204, FALSE>>, <<3260, TRUE>>,
    <<3261, FALSE>>, <<3262, TRUE>>, <<3269, FALSE>>, <<3270, TRUE>>, <<3273, FALSE>>,
    <<3274, TRUE>>, <<3278, FALSE>>, <<3285, TRUE>>, <<3287, FALSE>>, <<3298, TRUE>>,
    <<3300, FALSE>>, <<3328, TRUE>>, <<3332, FALSE>>, <<3387, TRUE>>, <<3389, FALSE>>,
    <<3390, TRUE>>, <<3397, FALSE>>, <<3398, TRUE>>, <<3401, FALSE>>, <<3402, TRUE>>,
    <<3406, FALSE>>, <<3415, TRUE>>, <<3416, FALSE>>, <<3426, TRUE>>, <<3428, FALSE>>,
    <<3457, TRUE>>, <<3460, FALSE>>, <<3530, TRUE>>, <<3531, FALSE>>, <<3535, TRUE>>,
    <<3541, FALSE>>, <<3542, TRUE>>, <<3543, FALSE>>, <<3544, TRUE>>, <<3552, FALSE>>,
    <<3570, TRUE>>, <<3572, FALSE>>, <<3633, TRUE>>, <<3634, FALSE>>, <<3636, TRUE>>,
    <<3643, FALSE>>, <<3655, TRUE>>, <<3663, FALSE>>, <<3761, TRUE>>, <<3762, FALSE>>,
    <<3764, TRUE>>, <<3773, FALSE>>, <<3784, TRUE>>, <<3790, FALSE>>, <<3864, TRUE>>,
    <<3866, FALSE>>, <<3893, TRUE>>, <<3894, FALSE>>, <<3895, TRUE>>, <<3896, FALSE>>,
    <<3897, TRUE>>, <<3898, FALSE>>, <<3902, TRUE>>, <<3904, FALSE>>, <<3953, TRUE>>,
    <<3973, FALSE>>, <<3974, TRUE>>, <<3976, FALSE>>, <<3981, TRUE>>, <<3992, FALSE>>,
    <<3993, TRUE>>, <<4029, FALSE>>, <<4038, TRUE>>, <<4039, FALSE>>, <<4139, TRUE>>,
    <<4159, FALSE>>, <<4182, TRUE>>, <<4186, FALSE>>, <<4190, TRUE>>, <<4193, FALSE>>,
    <<4194, TRUE>>, <<4197, FALSE>>, <<4199, TRUE>>, <<4206, FALSE>>, <<4209, TRUE>>,
    <<4213, FALSE>>, <<4226, TRUE>>, <<4238, FALSE>>, <<4239, TRUE>>, <<4240, FALSE>>,
    <<4250, TRUE>>, <<4254, FALSE>>, <<4957, TRUE>>, <<4960, FALSE>>, <<5906, TRUE>>,
    <<5909, FALSE>>, <<5938, TRUE>>, <<5941, FALSE>>, <<5970, TRUE>>, <<5972, FALSE>>,
    <<6002, TRUE>>, <<6004, FALSE>>, <<6068, TRUE>>, <<6100, FALSE>>, <<6109, TRUE>>,
    <<6110, FALSE>>, <<6155, TRUE>>, <<6158, FALSE>>, <<6277, TRUE>>, <<6279, FALSE>>,
    <<6313, TRUE>>, <<6314, FALSE>>, <<6432, TRUE>>, <<6444, FALSE>>, <<6448, TRUE>>,
    <<6460, FALSE>>, <<6679, TRUE>>, <<6684, FALSE>>, <<6741, TRUE>>, <<6751, FALSE>>,
    <<6752, TRUE>>, <<6781, FALSE>>, <<6783, TRUE>>, <<6784, FALSE>>, <<6832, TRUE>>,
    <<6849, FALSE>>, <<6912, TRUE>>, <<6917, FALSE>>, <<6964, TRUE>>, <<6981, FALSE>>,
    <<7019, TRUE>>, <<7028, FALSE>>, <<7040, TRUE>>, <<7043, FALSE>>, <<7073, TRUE>>,
    <<7086, FALSE>>, <<7142, TRUE>>, <<7156, FALSE>>, <<7204, TRUE>>, <<7224, FALSE>>,
    <<7376, TRUE>>, <<7379, FALSE>>, <<7380, TRUE>>, <<7401, FALSE>>, <<7405, TRUE>>,
    <<7406, FALSE>>, <<7412, TRUE>>, <<7413, FALSE>>, <<7415, TRUE>>, <<7418, FALSE>>,
    <<7616, TRUE>>, <<7674, FALSE>>, <<7675, TRUE>>, <<7680, FALSE>>, <<8400, TRUE>>,
    <<8433, FALSE>>, <<11503, TRUE>>, <<11506, FALSE>>, <<11647, TRUE>>, <<11648, FALSE>>,
    <<11744, TRUE>>, <<11776, FALSE>>, <<12330, TRUE>>, <<12336, FALSE>>, <<12441, TRUE>>,
    <<12443, FALSE>>, <<42607, TRUE>>, <<42611, FALSE>>, <<42612, TRUE>>, <<42622, FALSE>>,
    <<42654, TRUE>>, <<42656, FALSE>>, <<42736, TRUE>>, <<42738, FALSE>>, <<43010, TRUE>>,
    <<43011, FALSE>>, <<43014, TRUE>>, <<43015, FALSE>>, <<43019, TRUE>>, <<43020, FALSE>>,
    <<43043, TRUE>>, <<43048, FALSE>>, <<43052, TRUE>>, <<43053, FALSE>>, <<43136, TRUE>>,
    <<43138, FALSE>>, <<43188, TRUE>>, <<43206, FALSE>>, <<43232, TRUE>>, <<43250, FALSE>>,
    <<43263, TRUE>>, <<43264, FALSE>>, <<43302, TRUE>>, <<43310, FALSE>>, <<43335, TRUE>>,
    <<43348, FALSE>>, <<43392, TRUE>>, <<43396, FALSE>>, <<43443, TRUE>>, <<43457, FALSE>>,
    <<43493, TRUE>>, <<43494, FALSE>>, <<43561, TRUE>>, <<43575, FALSE>>, <<43587, TRUE>>,
    <<43588, FALSE>>, <<43596, TRUE>>, <<43598, FALSE>>, <<43643, TRUE>>, <<43646, FALSE>>,
    <<43696, TRUE>>, <<43697, FALSE>>, <<43698, TRUE>>, <<43701, FALSE>>, <<43703, TRUE>>,
    <<43705, FALSE>>, <<43710, TRUE>>, <<43712, FALSE>>, <<43713, TRUE>>, <<43714, FALSE>>,
    <<43755, TRUE>>, <<43760, FALSE>>, <<43765, TRUE>>, <<43767, FALSE>>, <<44003, TRUE>>,
    <<44011, FALSE>>, <<44012, TRUE>>, <<44014, FALSE>>, <<64286, TRUE>>, <<64287, FALSE>>,
    <<65024, TRUE>>, <<65040, FALSE>>, <<65056, TRUE>>, <<65072, FALSE>>, <<66045, TRUE>>,
    <<66046, FALSE>>, <<66272, TRUE>>, <<66273, FALSE>>, <<66422, TRUE>>, <<66427, FALSE>>,
    <<68097, TRUE>>, <<68100, FALSE>>, <<68101, TRUE>>, <<68103, FALSE>>, <<68108, TRUE>>,
    <<68112, FALSE>>, <<68152, TRUE>>, <<68155, FALSE>>, <<68159, TRUE>>, <<68160, FALSE>>,
    <<68325, TRUE>>, <<68327, FALSE>>, <<68900, TRUE>>, <<68904, FALSE>>, <<69291, TRUE>>,
    <<69293, FALSE>>, <<69446, TRUE>>, <<69457, FALSE>>, <<69632, TRUE>>, <<69635, FALSE>>,
    <<69688, TRUE>>, <<69703, FALSE>>, <<69759, TRUE>>, <<69763, FALSE>>, <<69808, TRUE>>,
    <<69819, FALSE>>, <<69888, TRUE>>, <<69891, FALSE>>, <<69927, TRUE>>, <<69941, FALSE>>,
    <<69957, TRUE>>, <<69959, FALSE>>, <<70003, TRUE>>, <<70004, FALSE>>, <<70016, TRUE>>,
    <<70019, FALSE>>, <<70067, TRUE>>, <<70081, FALSE>>, <<70089, TRUE>>, <<70093, FALSE>>,
    <<70094, TRUE>>, <<70096, FALSE>>, <<70188, TRUE>>, <<70200, FALSE>>, <<70206, TRUE>>,
    <<70207, FALSE>>, <<70367, TRUE>>, <<70379, FALSE>>, <<70400, TRUE>>, <<70404, FALSE>>,
    <<70459, TRUE>>, <<70461, FALSE>>, <<70462, TRUE>>, <<70469, FALSE>>, <<70471, TRUE>>,
    <<70473, FALSE>>, <<70475, TRUE>>, <<70478, FALSE>>, <<70487, TRUE>>, <<70488, FALSE>>,
    <<70498, TRUE>>, <<70500, FALSE>>, <<70502, TRUE>>, <<70509, FALSE>>, <<70512, TRUE>>,
    <<70517, FALSE>>, <<70709, TRUE>>, <<70727, FALSE>>, <<70750, TRUE>>, <<70751, FALSE>>,
    <<70832, TRUE>>, <<70852, FALSE>>, <<71087, TRUE>>, <<71094, FALSE>>, <<71096, TRUE>>,
    <<71105, FALSE>>, <<71132, TRUE>>, <<71134, FALSE>>, <<71216, TRUE>>, <<71233, FALSE>>,
    <<71339, TRUE>>, <<71352, FALSE>>, <<71453, TRUE>>, <<71468, FALSE>>, <<71724, TRUE>>,
    <<71739, FALSE>>, <<71984, TRUE>>, <<71990, FALSE>>, <<71991, TRUE>>, <<71993, FALSE>>,
    <<71995, TRUE>>, <<71999, FALSE>>, <<72000, TRUE>>, <<72001, FALSE>>, <<72002, TRUE>>,
    <<72004, FALSE>>, <<72145, TRUE>>, <<72152, FALSE>>, <<72154, TRUE>>, <<72161, FALSE>>,
    <<72164, TRUE>>, <<72165, FALSE>>, <<72193, TRUE>>, <<72203, FALSE>>, <<72243, TRUE>>,
    <<72250, FALSE>>, <<72251, TRUE>>, <<72255, FALSE>>, <<72263, TRUE>>, <<72264, FALSE>>,
    <<72273, TRUE>>, <<72284, FALSE>>, <<72330, TRUE>>, <<72346, FALSE>>, <<72751, TRUE>>,
    <<72759, FALSE>>, <<72760, TRUE>>, <<72768, FALSE>>, <<72850, TRUE>>, <<72872, FALSE>>,
    <<72873, TRUE>>, <<72887, FALSE>>, <<73009, TRUE>>, <<73015, FALSE>>, <<73018, TRUE>>,
    <<73019, FALSE>>, <<73020, TRUE>>, <<73022, FALSE>>, <<73023, TRUE>>, <<73030, FALSE>>,
    <<73031, TRUE>>, <<73032, FALSE>>, <<73098, TRUE>>, <<73103, FALSE>>, <<73104, TRUE>>,
    <<73106, FALSE>>, <<73107, TRUE>>, <<73112, FALSE>>, <<73459, TRUE>>, <<73463, FALSE>>,
    <<92912, TRUE>>, <<92917, FALSE>>, <<92976, TRUE>>, <<92983, FALSE>>, <<94031, TRUE>>,
    <<94032, FALSE>>, <<94033, TRUE>>, <<94088, FALSE>>, <<94095, TRUE>>, <<94099, FALSE>>,
    <<94180, TRUE>>, <<94181, FALSE>>, <<94192, TRUE>>, <<94194, FALSE>>, <<113821, TRUE>>,
    <<113823, FALSE>>, <<119141, TRUE>>, <<119146, FALSE>>, <<119149, TRUE>>, <<119155, FALSE>>,
    <<119163, TRUE>>, <<119171, FALSE>>, <<119173, TRUE>>, <<119180, FALSE>>, <<119210, TRUE>>,
    <<119214, FALSE>>, <<119362, TRUE>>, <<119365, FALSE>>, <<121344, TRUE>>, <<121399, FALSE>>,
    <<121403, TRUE>>, <<121453, FALSE>>, <<121461, TRUE>>, <<121462, FALSE>>, <<121476, TRUE>>,
    <<121477, FALSE>>, <<121499, TRUE>>, <<121504, FALSE>>, <<121505, TRUE>>, <<121520, FALSE>>,
    <<122880, TRUE>>, <<122887, FALSE>>, <<122888, TRUE>>, <<122905, FALSE>>, <<122907, TRUE>>,
    <<122914, FALSE>>, <<122915, TRUE>>, <<122917, FALSE>>, <<122918, TRUE>>, <<122923, FALSE>>,
    <<123184, TRUE>>, <<123191, FALSE>>, <<123628, TRUE>>, <<123632, FALSE>>, <<125136, TRUE>>,
    <<125143, FALSE>>, <<125252, TRUE>>, <<125259, FALSE>>, <<917760, TRUE>>, <<918000, FALSE>>>>

\* is_label_valid, dir_table: Bidi_Class, <<first code point, class>>, with
\* "other" for the classes that the Bidi rule has no word for and for the
\* code points without a class; U+1734 is NSM, as it was in Unicode 13.0
BidiClassTable == <<
    <<0, "BN">>, <<9, "other">>, <<14, "BN">>, <<28, "other">>, <<33, "ON">>, <<35, "ET">>,
    <<38, "ON">>, <<43, "ES">>, <<44, "CS">>, <<45, "ES">>, <<46, "CS">>, <<48, "EN">>,
    <<58, "CS">>, <<59, "ON">>, <<65, "L">>, <<91, "ON">>, <<97, "L">>, <<123, "ON">>,
    <<127, "BN">>, <<133, "other">>, <<134, "BN">>, <<160, "CS">>, <<161, "ON">>, <<162, "ET">>,
    <<166, "ON">>, <<170, "L">>, <<171, "ON">>, <<173, "BN">>, <<174, "ON">>, <<176, "ET">>,
    <<178, "EN">>, <<180, "ON">>, <<181, "L">>, <<182, "ON">>, <<185, "EN">>, <<186, "L">>,
    <<187, "ON">>, <<192, "L">>, <<215, "ON">>, <<216, "L">>, <<247, "ON">>, <<248, "L">>,
    <<697, "ON">>, <<699, "L">>, <<706, "ON">>, <<720, "L">>, <<722, "ON">>, <<736, "L">>,
    <<741, "ON">>, <<750, "L">>, <<751, "ON">>, <<768, "NSM">>, <<880, "L">>, <<884, "ON">>,
    <<886, "L">>, <<888, "other">>, <<890, "L">>, <<894, "ON">>, <<895, "L">>, <<896, "other">>,
    <<900, "ON">>, <<902, "L">>, <<903, "ON">>, <<904, "L">>, <<907, "other">>, <<908, "L">>,
    <<909, "other">>, <<910, "L">>, <<930, "other">>, <<931, "L">>, <<1014, "ON">>, <<1015, "L">>,
    <<1155, "NSM">>, <<1162, "L">>, <<1328, "other">>, <<1329, "L">>, <<1367, "other">>,
    <<1369, "L">>, <<1418, "ON">>, <<1419, "other">>, <<1421, "ON">>, <<1423, "ET">>,
    <<1424, "other">>, <<1425, "NSM">>, <<1470, "R">>, <<1471, "NSM">>, <<1472, "R">>,
    <<1473, "NSM">>, <<1475, "R">>, <<1476, "NSM">>, <<1478, "R">>, <<1479, "NSM">>,
    <<1480, "other">>, <<1488, "R">>, <<1515, "other">>, <<1519, "R">>, <<1525, "other">>,
    <<1536, "AN">>, <<1542, "ON">>, <<1544, "AL">>, <<1545, "ET">>, <<1547, "AL">>,
    <<1548, "CS">>, <<1549, "AL">>, <<1550, "ON">>, <<1552, "NSM">>, <<1563, "AL">>,
    <<1565, "other">>, <<1566, "AL">>, <<1611, "NSM">>, <<1632, "AN">>, <<1642, "ET">>,
    <<1643, "AN">>, <<1645, "AL">>, <<1648, "NSM">>, <<1649, "AL">>, <<1750, "NSM">>,
    <<1757, "AN">>, <<1758, "ON">>, <<1759, "NSM">>, <<1765, "AL">>, <<1767, "NSM">>,
    <<1769, "ON">>, <<1770, "NSM">>, <<1774, "AL">>, <<1776, "EN">>, <<1786, "AL">>,
    <<1806, "other">>, <<1807, "AL">>, <<1809, "NSM">>, <<1810, "AL">>, <<1840, "NSM">>,
    <<1867, "other">>, <<1869, "AL">>, <<1958, "NSM">>, <<1969, "AL">>, <<1970, "other">>,
    <<1984, "R">>, <<2027, "NSM">>, <<2036, "R">>, <<2038, "ON">>, <<2042, "R">>,
    <<2043, "other">>, <<2045, "NSM">>, <<2046, "R">>, <<2070, "NSM">>, <<2074, "R">>,
    <<2075, "NSM">>, <<2084, "R">>, <<2085, "NSM">>, <<2088, "R">>, <<2089, "NSM">>,
    <<2094, "other">>, <<2096, "R">>, <<2111, "other">>, <<2112, "R">>, <<2137, "NSM">>,
    <<2140, "other">>, <<2142, "R">>, <<2143, "other">>, <<2144, "AL">>, <<2155, "other">>,
    <<2208, "AL">>, <<2229, "other">>, <<2230, "AL">>, <<2248, "other">>, <<2259, "NSM">>,
    <<2274, "AN">>, <<2275, "NSM">>, <<2307, "L">>, <<2362, "NSM">>, <<2363, "L">>,
    <<2364, "NSM">>, <<2365, "L">>, <<2369, "NSM">>, <<2377, "L">>, <<2381, "NSM">>,
    <<2382, "L">>, <<2385, "NSM">>, <<2392, "L">>, <<2402, "NSM">>, <<2404, "L">>,
    <<2433, "NSM">>, <<2434, "L">>, <<2436, "other">>, <<2437, "L">>, <<2445, "other">>,
    <<2447, "L">>, <<2449, "other">>, <<2451, "L">>, <<2473, "other">>, <<2474, "L">>,
    <<2481, "other">>, <<2482, "L">>, <<2483, "other">>, <<2486, "L">>, <<2490, "other">>,
    <<2492, "NSM">>, <<2493, "L">>, <<2497, "NSM">>, <<2501, "other">>, <<2503, "L">>,
    <<2505, "other">>, <<2507, "L">>, <<2509, "NSM">>, <<2510, "L">>, <<2511, "other">>,
    <<2519, "L">>, <<2520, "other">>, <<2524, "L">>, <<2526, "other">>, <<2527, "L">>,
    <<2530, "NSM">>, <<2532, "other">>, <<2534, "L">>, <<2546, "ET">>, <<2548, "L">>,
    <<2555, "ET">>, <<2556, "L">>, <<2558, "NSM">>, <<2559, "other">>, <<2561, "NSM">>,
    <<2563, "L">>, <<2564, "other">>, <<2565, "L">>, <<2571, "other">>, <<2575, "L">>,
    <<2577, "other">>, <<2579, "L">>, <<2601, "other">>, <<2602, "L">>, <<2609, "other">>,
    <<2610, "L">>, <<2612, "other">>, <<2613, "L">>, <<2615, "other">>, <<2616, "L">>,
    <<2618, "other">>, <<2620, "NSM">>, <<2621, "other">>, <<2622, "L">>, <<2625, "NSM">>,
    <<2627, "other">>, <<2631, "NSM">>, <<2633, "other">>, <<2635, "NSM">>, <<2638, "other">>,
    <<2641, "NSM">>, <<2642, "other">>, <<2649, "L">>, <<2653, "other">>, <<2654, "L">>,
    <<2655, "other">>, <<2662, "L">>, <<2672, "NSM">>, <<2674, "L">>, <<2677, "NSM">>,
    <<2678, "L">>, <<2679, "other">>, <<2689, "NSM">>, <<2691, "L">>, <<2692, "other">>,
    <<2693, "L">>, <<2702, "other">>, <<2703, "L">>, <<2706, "other">>, <<2707, "L">>,
    <<2729, "other">>, <<2730, "L">>, <<2737, "other">>, <<2738, "L">>, <<2740, "other">>,
    <<2741, "L">>, <<2746, "other">>, <<2748, "NSM">>, <<2749, "L">>, <<2753, "NSM">>,
    <<2758, "other">>, <<2759, "NSM">>, <<2761, "L">>, <<2762, "other">>, <<2763, "L">>,
    <<2765, "NSM">>, <<2766, "other">>, <<2768, "L">>, <<2769, "other">>, <<2784, "L">>,
    <<2786, "NSM">>, <<2788, "other">>, <<2790, "L">>, <<2801, "ET">>, <<2802, "other">>,
    <<2809, "L">>, <<2810, "NSM">>, <<2816, "other">>, <<2817, "NSM">>, <<2818, "L">>,
    <<2820, "other">>, <<2821, "L">>, <<2829, "other">>, <<2831, "L">>, <<2833, "other">>,
    <<2835, "L">>, <<2857, "other">>, <<2858, "L">>, <<2865, "other">>, <<2866, "L">>,
    <<2868, "other">>, <<2869, "L">>, <<2874, "other">>, <<2876, "NSM">>, <<2877, "L">>,
    <<2879, "NSM">>, <<2880, "L">>, <<2881, "NSM">>, <<2885, "other">>, <<2887, "L">>,
    <<2889, "other">>, <<2891, "L">>, <<2893, "NSM">>, <<2894, "other">>, <<2901, "NSM">>,
    <<2903, "L">>, <<2904, "other">>, <<2908, "L">>, <<2910, "other">>, <<2911, "L">>,
    <<2914, "NSM">>, <<2916, "other">>, <<2918, "L">>, <<2936, "other">>, <<2946, "NSM">>,
    <<2947, "L">>, <<2948, "other">>, <<2949, "L">>, <<2955, "other">>, <<2958, "L">>,
    <<2961, "other">>, <<2962, "L">>, <<2966, "other">>, <<2969, "L">>, <<2971, "other">>,
    <<2972, "L">>, <<2973, "other">>, <<2974, "L">>, <<2976, "other">>, <<2979, "L">>,
    <<2981, "other">>, <<2984, "L">>, <<2987, "other">>, <<2990, "L">>, <<3002, "other">>,
    <<3006, "L">>, <<3008, "NSM">>, <<3009, "L">>, <<3011, "other">>, <<3014, "L">>,
    <<3017, "other">>, <<3018, "L">>, <<3021, "NSM">>, <<3022, "other">>, <<3024, "L">>,
    <<3025, "other">>, <<3031, "L">>, <<3032, "other">>, <<3046, "L">>, <<3059, "ON">>,
    <<3065, "ET">>, <<3066, "ON">>, <<3067, "other">>, <<3072, "NSM">>, <<3073, "L">>,
    <<3076, "NSM">>, <<3077, "L">>, <<3085, "other">>, <<3086, "L">>, <<3089, "other">>,
    <<3090, "L">>, <<3113, "other">>, <<3114, "L">>, <<3130, "other">>, <<3133, "L">>,
    <<3134, "NSM">>, <<3137, "L">>, <<3141, "other">>, <<3142, "NSM">>, <<3145, "other">>,
    <<3146, "NSM">>, <<3150, "other">>, <<3157, "NSM">>, <<3159, "other">>, <<3160, "L">>,
    <<3163, "other">>, <<3168, "L">>, <<3170, "NSM">>, <<3172, "other">>, <<3174, "L">>,
    <<3184, "other">>, <<3191, "L">>, <<3192, "ON">>, <<3199, "L">>, <<3201, "NSM">>,
    <<3202, "L">>, <<3213, "other">>, <<3214, "L">>, <<3217, "other">>, <<3218, "L">>,
    <<3241, "other">>, <<3242, "L">>, <<3252, "other">>, <<3253, "L">>, <<3258, "other">>,
    <<3260, "NSM">>, <<3261, "L">>, <<3269, "other">>, <<3270, "L">>, <<3273, "other">>,
    <<3274, "L">>, <<3276, "NSM">>, <<3278, "other">>, <<3285, "L">>, <<3287, "other">>,
    <<3294, "L">>, <<3295, "other">>, <<3296, "L">>, <<3298, "NSM">>, <<3300, "other">>,
    <<3302, "L">>, <<3312, "other">>, <<3313, "L">>, <<3315, "other">>, <<3328, "NSM">>,
    <<3330, "L">>, <<3341, "other">>, <<3342, "L">>, <<3345, "other">>, <<3346, "L">>,
    <<3387, "NSM">>, <<3389, "L">>, <<3393, "NSM">>, <<3397, "other">>, <<3398, "L">>,
    <<3401, "other">>, <<3402, "L">>, <<3405, "NSM">>, <<3406, "L">>, <<3408, "other">>,
    <<3412, "L">>, <<3426, "NSM">>, <<3428, "other">>, <<3430, "L">>, <<3456, "other">>,
    <<3457, "NSM">>, <<3458, "L">>, <<3460, "other">>, <<3461, "L">>, <<3479, "other">>,
    <<3482, "L">>, <<3506, "other">>, <<3507, "L">>, <<3516, "other">>, <<3517, "L">>,
    <<3518, "other">>, <<3520, "L">>, <<3527, "other">>, <<3530, "NSM">>, <<3531, "other">>,
    <<3535, "L">>, <<3538, "NSM">>, <<3541, "other">>, <<3542, "NSM">>, <<3543, "other">>,
    <<3544, "L">>, <<3552, "other">>, <<3558, "L">>, <<3568, "other">>, <<3570, "L">>,
    <<3573, "other">>, <<3585, "L">>, <<3633, "NSM">>, <<3634, "L">>, <<3636, "NSM">>,
    <<3643, "other">>, <<3647, "ET">>, <<3648, "L">>, <<3655, "NSM">>, <<3663, "L">>,
    <<3676, "other">>, <<3713, "L">>, <<3715, "other">>, <<3716, "L">>, <<3717, "other">>,
    <<3718, "L">>, <<3723, "other">>, <<3724, "L">>, <<3748, "other">>, <<3749, "L">>,
    <<3750, "other">>, <<3751, "L">>, <<3761, "NSM">>, <<3762, "L">>, <<3764, "NSM">>,
    <<3773, "L">>, <<3774, "other">>, <<3776, "L">>, <<3781, "other">>, <<3782, "L">>,
    <<3783, "other">>, <<3784, "NSM">>, <<3790, "other">>, <<3792, "L">>, <<3802, "other">>,
    <<3804, "L">>, <<3808, "other">>, <<3840, "L">>, <<3864, "NSM">>, <<3866, "L">>,
    <<3893, "NSM">>, <<3894, "L">>, <<3895, "NSM">>, <<3896, "L">>, <<3897, "NSM">>,
    <<3898, "ON">>, <<3902, "L">>, <<3912, "other">>, <<3913, "L">>, <<3949, "other">>,
    <<3953, "NSM">>, <<3967, "L">>, <<3968, "NSM">>, <<3973, "L">>, <<3974, "NSM">>,
    <<3976, "L">>, <<3981, "NSM">>, <<3992, "other">>, <<3993, "NSM">>, <<4029, "other">>,
    <<4030, "L">>, <<4038, "NSM">>, <<4039, "L">>, <<4045, "other">>, <<4046, "L">>,
    <<4059, "other">>, <<4096, "L">>, <<4141, "NSM">>, <<4145, "L">>, <<4146, "NSM">>,
    <<4152, "L">>, <<4153, "NSM">>, <<4155, "L">>, <<4157, "NSM">>, <<4159, "L">>,
    <<4184, "NSM">>, <<4186, "L">>, <<4190, "NSM">>, <<4193, "L">>, <<4209, "NSM">>,
    <<4213, "L">>, <<4226, "NSM">>, <<4227, "L">>, <<4229, "NSM">>, <<4231, "L">>,
    <<4237, "NSM">>, <<4238, "L">>, <<4253, "NSM">>, <<4254, "L">>, <<4294, "other">>,
    <<4295, "L">>, <<4296, "other">>, <<4301, "L">>, <<4302, "other">>, <<4304, "L">>,
    <<4681, "other">>, <<4682, "L">>, <<4686, "other">>, <<4688, "L">>, <<4695, "other">>,
    <<4696, "L">>, <<4697, "other">>, <<4698, "L">>, <<4702, "other">>, <<4704, "L">>,
    <<4745, "other">>, <<4746, "L">>, <<4750, "other">>, <<4752, "L">>, <<4785, "other">>,
    <<4786, "L">>, <<4790, "other">>, <<4792, "L">>, <<4799, "other">>, <<4800, "L">>,
    <<4801, "other">>, <<4802, "L">>, <<4806, "other">>, <<4808, "L">>, <<4823, "other">>,
    <<4824, "L">>, <<4881, "other">>, <<4882, "L">>, <<4886, "other">>, <<4888, "L">>,
    <<4955, "other">>, <<4957, "NSM">>, <<4960, "L">>, <<4989, "other">>, <<4992, "L">>,
    <<5008, "ON">>, <<5018, "other">>, <<5024, "L">>, <<5110, "other">>, <<5112, "L">>,
    <<5118, "other">>, <<5120, "ON">>, <<5121, "L">>, <<5760, "other">>, <<5761, "L">>,
    <<5787, "ON">>, <<5789, "other">>, <<5792, "L">>, <<5881, "other">>, <<5888, "L">>,
    <<5901, "other">>, <<5902, "L">>, <<5906, "NSM">>, <<5909, "other">>, <<5920, "L">>,
    <<5938, "NSM">>, <<5941, "L">>, <<5943, "other">>, <<5952, "L">>, <<5970, "NSM">>,
    <<5972, "other">>, <<5984, "L">>, <<5997, "other">>, <<5998, "L">>, <<6001, "other">>,
    <<6002, "NSM">>, <<6004, "other">>, <<6016, "L">>, <<6068, "NSM">>, <<6070, "L">>,
    <<6071, "NSM">>, <<6078, "L">>, <<6086, "NSM">>, <<6087, "L">>, <<6089, "NSM">>,
    <<6100, "L">>, <<6107, "ET">>, <<6108, "L">>, <<6109, "NSM">>, <<6110, "other">>,
    <<6112, "L">>, <<6122, "other">>, <<6128, "ON">>, <<6138, "other">>, <<6144, "ON">>,
    <<6155, "NSM">>, <<6158, "BN">>, <<6159, "other">>, <<6160, "L">>, <<6170, "other">>,
    <<6176, "L">>, <<6265, "other">>, <<6272, "L">>, <<6277, "NSM">>, <<6279, "L">>,
    <<6313, "NSM">>, <<6314, "L">>, <<6315, "other">>, <<6320, "L">>, <<6390, "other">>,
    <<6400, "L">>, <<6431, "other">>, <<6432, "NSM">>, <<6435, "L">>, <<6439, "NSM">>,
    <<6441, "L">>, <<6444, "other">>, <<6448, "L">>, <<6450, "NSM">>, <<6451, "L">>,
    <<6457, "NSM">>, <<6460, "other">>, <<6464, "ON">>, <<6465, "other">>, <<6468, "ON">>,
    <<6470, "L">>, <<6510, "other">>, <<6512, "L">>, <<6517, "other">>, <<6528, "L">>,
    <<6572, "other">>, <<6576, "L">>, <<6602, "other">>, <<6608, "L">>, <<6619, "other">>,
    <<6622, "ON">>, <<6656, "L">>, <<6679, "NSM">>, <<6681, "L">>, <<6683, "NSM">>,
    <<6684, "other">>, <<6686, "L">>, <<6742, "NSM">>, <<6743, "L">>, <<6744, "NSM">>,
    <<6751, "other">>, <<6752, "NSM">>, <<6753, "L">>, <<6754, "NSM">>, <<6755, "L">>,
    <<6757, "NSM">>, <<6765, "L">>, <<6771, "NSM">>, <<6781, "other">>, <<6783, "NSM">>,
    <<6784, "L">>, <<6794, "other">>, <<6800, "L">>, <<6810, "other">>, <<6816, "L">>,
    <<6830, "other">>, <<6832, "NSM">>, <<6849, "other">>, <<6912, "NSM">>, <<6916, "L">>,
    <<6964, "NSM">>, <<6965, "L">>, <<6966, "NSM">>, <<6971, "L">>, <<6972, "NSM">>,
    <<6973, "L">>, <<6978, "NSM">>, <<6979, "L">>, <<6988, "other">>, <<6992, "L">>,
    <<7019, "NSM">>, <<7028, "L">>, <<7037, "other">>, <<7040, "NSM">>, <<7042, "L">>,
    <<7074, "NSM">>, <<7078, "L">>, <<7080, "NSM">>, <<7082, "L">>, <<7083, "NSM">>,
    <<7086, "L">>, <<7142, "NSM">>, <<7143, "L">>, <<7144, "NSM">>, <<7146, "L">>,
    <<7149, "NSM">>, <<7150, "L">>, <<7151, "NSM">>, <<7154, "L">>, <<7156, "other">>,
    <<7164, "L">>, <<7212, "NSM">>, <<7220, "L">>, <<7222, "NSM">>, <<7224, "other">>,
    <<7227, "L">>, <<7242, "other">>, <<7245, "L">>, <<7305, "other">>, <<7312, "L">>,
    <<7355, "other">>, <<7357, "L">>, <<7368, "other">>, <<7376, "NSM">>, <<7379, "L">>,
    <<7380, "NSM">>, <<7393, "L">>, <<7394, "NSM">>, <<7401, "L">>, <<7405, "NSM">>,
    <<7406, "L">>, <<7412, "NSM">>, <<7413, "L">>, <<7416, "NSM">>, <<7418, "L">>,
    <<7419, "other">>, <<7424, "L">>, <<7616, "NSM">>, <<7674, "other">>, <<7675, "NSM">>,
    <<7680, "L">>, <<7958, "other">>, <<7960, "L">>, <<7966, "other">>, <<7968, "L">>,
    <<8006, "other">>, <<8008, "L">>, <<8014, "other">>, <<8016, "L">>, <<8024, "other">>,
    <<8025, "L">>, <<8026, "other">>, <<8027, "L">>, <<8028, "other">>, <<8029, "L">>,
    <<8030, "other">>, <<8031, "L">>, <<8062, "other">>, <<8064, "L">>, <<8117, "other">>,
    <<8118, "L">>, <<8125, "ON">>, <<8126, "L">>, <<8127, "ON">>, <<8130, "L">>,
    <<8133, "other">>, <<8134, "L">>, <<8141, "ON">>, <<8144, "L">>, <<8148, "other">>,
    <<8150, "L">>, <<8156, "other">>, <<8157, "ON">>, <<8160, "L">>, <<8173, "ON">>,
    <<8176, "other">>, <<8178, "L">>, <<8181, "other">>, <<8182, "L">>, <<8189, "ON">>,
    <<8191, "other">>, <<8203, "BN">>, <<8206, "L">>, <<8207, "R">>, <<8208, "ON">>,
    <<8232, "other">>, <<8239, "CS">>, <<8240, "ET">>, <<8245, "ON">>, <<8260, "CS">>,
    <<8261, "ON">>, <<8287, "other">>, <<8288, "BN">>, <<8293, "other">>, <<8298, "BN">>,
    <<8304, "EN">>, <<8305, "L">>, <<8306, "other">>, <<8308, "EN">>, <<8314, "ES">>,
    <<8316, "ON">>, <<8319, "L">>, <<8320, "EN">>, <<8330, "ES">>, <<8332, "ON">>,
    <<8335, "other">>, <<8336, "L">>, <<8349, "other">>, <<8352, "ET">>, <<8384, "other">>,
    <<8400, "NSM">>, <<8433, "other">>, <<8448, "ON">>, <<8450, "L">>, <<8451, "ON">>,
    <<8455, "L">>, <<8456, "ON">>, <<8458, "L">>, <<8468, "ON">>, <<8469, "L">>, <<8470, "ON">>,
    <<8473, "L">>, <<8478, "ON">>, <<8484, "L">>, <<8485, "ON">>, <<8486, "L">>, <<8487, "ON">>,
    <<8488, "L">>, <<8489, "ON">>, <<8490, "L">>, <<8494, "ET">>, <<8495, "L">>, <<8506, "ON">>,
    <<8508, "L">>, <<8512, "ON">>, <<8517, "L">>, <<8522, "ON">>, <<8526, "L">>, <<8528, "ON">>,
    <<8544, "L">>, <<8585, "ON">>, <<8588, "other">>, <<8592, "ON">>, <<8722, "ES">>,
    <<8723, "ET">>, <<8724, "ON">>, <<9014, "L">>, <<9083, "ON">>, <<9109, "L">>, <<9110, "ON">>,
    <<9255, "other">>, <<9280, "ON">>, <<9291, "other">>, <<9312, "ON">>, <<9352, "EN">>,
    <<9372, "L">>, <<9450, "ON">>, <<9900, "L">>, <<9901, "ON">>, <<10240, "L">>, <<10496, "ON">>,
    <<11124, "other">>, <<11126, "ON">>, <<11158, "other">>, <<11159, "ON">>, <<11264, "L">>,
    <<11311, "other">>, <<11312, "L">>, <<11359, "other">>, <<11360, "L">>, <<11493, "ON">>,
    <<11499, "L">>, <<11503, "NSM">>, <<11506, "L">>, <<11508, "other">>, <<11513, "ON">>,
    <<11520, "L">>, <<11558, "other">>, <<11559, "L">>, <<11560, "other">>, <<11565, "L">>,
    <<11566, "other">>, <<11568, "L">>, <<11624, "other">>, <<11631, "L">>, <<11633, "other">>,
    <<11647, "NSM">>, <<11648, "L">>, <<11671, "other">>, <<11680, "L">>, <<11687, "other">>,
    <<11688, "L">>, <<11695, "other">>, <<11696, "L">>, <<11703, "other">>, <<11704, "L">>,
    <<11711, "other">>, <<11712, "L">>, <<11719, "other">>, <<11720, "L">>, <<11727, "other">>,
    <<11728, "L">>, <<11735, "other">>, <<11736, "L">>, <<11743, "other">>, <<11744, "NSM">>,
    <<11776, "ON">>, <<11859, "other">>, <<11904, "ON">>, <<11930, "other">>, <<11931, "ON">>,
    <<12020, "other">>, <<12032, "ON">>, <<12246, "other">>, <<12272, "ON">>, <<12284, "other">>,
    <<12289, "ON">>, <<12293, "L">>, <<12296, "ON">>, <<12321, "L">>, <<12330, "NSM">>,
    <<12334, "L">>, <<12336, "ON">>, <<12337, "L">>, <<12342, "ON">>, <<12344, "L">>,
    <<12349, "ON">>, <<12352, "other">>, <<12353, "L">>, <<12439, "other">>, <<12441, "NSM">>,
    <<12443, "ON">>, <<12445, "L">>, <<12448, "ON">>, <<12449, "L">>, <<12539, "ON">>,
    <<12540, "L">>, <<12544, "other">>, <<12549, "L">>, <<12592, "other">>, <<12593, "L">>,
    <<12687, "other">>, <<12688, "L">>, <<12736, "ON">>, <<12772, "other">>, <<12784, "L">>,
    <<12829, "ON">>, <<12831, "other">>, <<12832, "L">>, <<12880, "ON">>, <<12896, "L">>,
    <<12924, "ON">>, <<12927, "L">>, <<12977, "ON">>, <<12992, "L">>, <<13004, "ON">>,
    <<13008, "L">>, <<13175, "ON">>, <<13179, "L">>, <<13278, "ON">>, <<13280, "L">>,
    <<13311, "ON">>, <<13312, "L">>, <<19904, "ON">>, <<19968, "L">>, <<40957, "other">>,
    <<40960, "L">>, <<42125, "other">>, <<42128, "ON">>, <<42183, "other">>, <<42192, "L">>,
    <<42509, "ON">>, <<42512, "L">>, <<42540, "other">>, <<42560, "L">>, <<42607, "NSM">>,
    <<42611, "ON">>, <<42612, "NSM">>, <<42622, "ON">>, <<42624, "L">>, <<42654, "NSM">>,
    <<42656, "L">>, <<42736, "NSM">>, <<42738, "L">>, <<42744, "other">>, <<42752, "ON">>,
    <<42786, "L">>, <<42888, "ON">>, <<42889, "L">>, <<42944, "other">>, <<42946, "L">>,
    <<42955, "other">>, <<42997, "L">>, <<43010, "NSM">>, <<43011, "L">>, <<43014, "NSM">>,
    <<43015, "L">>, <<43019, "NSM">>, <<43020, "L">>, <<43045, "NSM">>, <<43047, "L">>,
    <<43048, "ON">>, <<43052, "NSM">>, <<43053, "other">>, <<43056, "L">>, <<43064, "ET">>,
    <<43066, "other">>, <<43072, "L">>, <<43124, "ON">>, <<43128, "other">>, <<43136, "L">>,
    <<43204, "NSM">>, <<43206, "other">>, <<43214, "L">>, <<43226, "other">>, <<43232, "NSM">>,
    <<43250, "L">>, <<43263, "NSM">>, <<43264, "L">>, <<43302, "NSM">>, <<43310, "L">>,
    <<43335, "NSM">>, <<43346, "L">>, <<43348, "other">>, <<43359, "L">>, <<43389, "other">>,
    <<43392, "NSM">>, <<43395, "L">>, <<43443, "NSM">>, <<43444, "L">>, <<43446, "NSM">>,
    <<43450, "L">>, <<43452, "NSM">>, <<43454, "L">>, <<43470, "other">>, <<43471, "L">>,
    <<43482, "other">>, <<43486, "L">>, <<43493, "NSM">>, <<43494, "L">>, <<43519, "other">>,
    <<43520, "L">>, <<43561, "NSM">>, <<43567, "L">>, <<43569, "NSM">>, <<43571, "L">>,
    <<43573, "NSM">>, <<43575, "other">>, <<43584, "L">>, <<43587, "NSM">>, <<43588, "L">>,
    <<43596, "NSM">>, <<43597, "L">>, <<43598, "other">>, <<43600, "L">>, <<43610, "other">>,
    <<43612, "L">>, <<43644, "NSM">>, <<43645, "L">>, <<43696, "NSM">>, <<43697, "L">>,
    <<43698, "NSM">>, <<43701, "L">>, <<43703, "NSM">>, <<43705, "L">>, <<43710, "NSM">>,
    <<43712, "L">>, <<43713, "NSM">>, <<43714, "L">>, <<43715, "other">>, <<43739, "L">>,
    <<43756, "NSM">>, <<43758, "L">>, <<43766, "NSM">>, <<43767, "other">>, <<43777, "L">>,
    <<43783, "other">>, <<43785, "L">>, <<43791, "other">>, <<43793, "L">>, <<43799, "other">>,
    <<43808, "L">>, <<43815, "other">>, <<43816, "L">>, <<43823, "other">>, <<43824, "L">>,
    <<43882, "ON">>, <<43884, "other">>, <<43888, "L">>, <<44005, "NSM">>, <<44006, "L">>,
    <<44008, "NSM">>, <<44009, "L">>, <<44013, "NSM">>, <<44014, "other">>, <<44016, "L">>,
    <<44026, "other">>, <<44032, "L">>, <<55204, "other">>, <<55216, "L">>, <<55239, "other">>,
    <<55243, "L">>, <<55292, "other">>, <<55296, "L">>, <<64110, "other">>, <<64112, "L">>,
    <<64218, "other">>, <<64256, "L">>, <<64263, "other">>, <<64275, "L">>, <<64280, "other">>,
    <<64285, "R">>, <<64286, "NSM">>, <<64287, "R">>, <<64297, "ES">>, <<64298, "R">>,
    <<64311, "other">>, <<64312, "R">>, <<64317, "other">>, <<64318, "R">>, <<64319, "other">>,
    <<64320, "R">>, <<64322, "other">>, <<64323, "R">>, <<64325, "other">>, <<64326, "R">>,
    <<64336, "AL">>, <<64450, "other">>, <<64467, "AL">>, <<64830, "ON">>, <<64832, "other">>,
    <<64848, "AL">>, <<64912, "other">>, <<64914, "AL">>, <<64968, "other">>, <<64976, "BN">>,
    <<65008, "AL">>, <<65021, "ON">>, <<65022, "other">>, <<65024, "NSM">>, <<65040, "ON">>,
    <<65050, "other">>, <<65056, "NSM">>, <<65072, "ON">>, <<65104, "CS">>, <<65105, "ON">>,
    <<65106, "CS">>, <<65107, "other">>, <<65108, "ON">>, <<65109, "CS">>, <<65110, "ON">>,
    <<65119, "ET">>, <<65120, "ON">>, <<65122, "ES">>, <<65124, "ON">>, <<65127, "other">>,
    <<65128, "ON">>, <<65129, "ET">>, <<65131, "ON">>, <<65132, "other">>, <<65136, "AL">>,
    <<65141, "other">>, <<65142, "AL">>, <<65277, "other">>, <<65279, "BN">>, <<65280, "other">>,
    <<65281, "ON">>, <<65283, "ET">>, <<65286, "ON">>, <<65291, "ES">>, <<65292, "CS">>,
    <<65293, "ES">>, <<65294, "CS">>, <<65296, "EN">>, <<65306, "CS">>, <<65307, "ON">>,
    <<65313, "L">>, <<65339, "ON">>, <<65345, "L">>, <<65371, "ON">>, <<65382, "L">>,
    <<65471, "other">>, <<65474, "L">>, <<65480, "other">>, <<65482, "L">>, <<65488, "other">>,
    <<65490, "L">>, <<65496, "other">>, <<65498, "L">>, <<65501, "other">>, <<65504, "ET">>,
    <<65506, "ON">>, <<65509, "ET">>, <<65511, "other">>, <<65512, "ON">>, <<65519, "other">>,
    <<65529, "ON">>, <<65534, "BN">>, <<65536, "L">>, <<65548, "other">>, <<65549, "L">>,
    <<65575, "other">>, <<65576, "L">>, <<65595, "other">>, <<65596, "L">>, <<65598, "other">>,
    <<65599, "L">>, <<65614, "other">>, <<65616, "L">>, <<65630, "other">>, <<65664, "L">>,
    <<65787, "other">>, <<65792, "L">>, <<65793, "ON">>, <<65794, "L">>, <<65795, "other">>,
    <<65799, "L">>, <<65844, "other">>, <<65847, "L">>, <<65856, "ON">>, <<65933, "L">>,
    <<65935, "other">>, <<65936, "ON">>, <<65949, "other">>, <<65952, "ON">>, <<65953, "other">>,
    <<66000, "L">>, <<66045, "NSM">>, <<66046, "other">>, <<66176, "L">>, <<66205, "other">>,
    <<66208, "L">>, <<66257, "other">>, <<66272, "NSM">>, <<66273, "EN">>, <<66300, "other">>,
    <<66304, "L">>, <<66340, "other">>, <<66349, "L">>, <<66379, "other">>, <<66384, "L">>,
    <<66422, "NSM">>, <<66427, "other">>, <<66432, "L">>, <<66462, "other">>, <<66463, "L">>,
    <<66500, "other">>, <<66504, "L">>, <<66518, "other">>, <<66560, "L">>, <<66718, "other">>,
    <<66720, "L">>, <<66730, "other">>, <<66736, "L">>, <<66772, "other">>, <<66776, "L">>,
    <<66812, "other">>, <<66816, "L">>, <<66856, "other">>, <<66864, "L">>, <<66916, "other">>,
    <<66927, "L">>, <<66928, "other">>, <<67072, "L">>, <<67383, "other">>, <<67392, "L">>,
    <<67414, "other">>, <<67424, "L">>, <<67432, "other">>, <<67584, "R">>, <<67590, "other">>,
    <<67592, "R">>, <<67593, "other">>, <<67594, "R">>, <<67638, "other">>, <<67639, "R">>,
    <<67641, "other">>, <<67644, "R">>, <<67645, "other">>, <<67647, "R">>, <<67670, "other">>,
    <<67671, "R">>, <<67743, "other">>, <<67751, "R">>, <<67760, "other">>, <<67808, "R">>,
    <<67827, "other">>, <<67828, "R">>, <<67830, "other">>, <<67835, "R">>, <<67868, "other">>,
    <<67871, "ON">>, <<67872, "R">>, <<67898, "other">>, <<67903, "R">>, <<67904, "other">>,
    <<67968, "R">>, <<68024, "other">>, <<68028, "R">>, <<68048, "other">>, <<68050, "R">>,
    <<68097, "NSM">>, <<68100, "other">>, <<68101, "NSM">>, <<68103, "other">>, <<68108, "NSM">>,
    <<68112, "R">>, <<68116, "other">>, <<68117, "R">>, <<68120, "other">>, <<68121, "R">>,
    <<68150, "other">>, <<68152, "NSM">>, <<68155, "other">>, <<68159, "NSM">>, <<68160, "R">>,
    <<68169, "other">>, <<68176, "R">>, <<68185, "other">>, <<68192, "R">>, <<68256, "other">>,
    <<68288, "R">>, <<68325, "NSM">>, <<68327, "other">>, <<68331, "R">>, <<68343, "other">>,
    <<68352, "R">>, <<68406, "other">>, <<68409, "ON">>, <<68416, "R">>, <<68438, "other">>,
    <<68440, "R">>, <<68467, "other">>, <<68472, "R">>, <<68498, "other">>, <<68505, "R">>,
    <<68509, "other">>, <<68521, "R">>, <<68528, "other">>, <<68608, "R">>, <<68681, "other">>,
    <<68736, "R">>, <<68787, "other">>, <<68800, "R">>, <<68851, "other">>, <<68858, "R">>,
    <<68864, "AL">>, <<68900, "NSM">>, <<68904, "other">>, <<68912, "AN">>, <<68922, "other">>,
    <<69216, "AN">>, <<69247, "other">>, <<69248, "R">>, <<69290, "other">>, <<69291, "NSM">>,
    <<69293, "R">>, <<69294, "other">>, <<69296, "R">>, <<69298, "other">>, <<69376, "R">>,
    <<69416, "other">>, <<69424, "AL">>, <<69446, "NSM">>, <<69457, "AL">>, <<69466, "other">>,
    <<69552, "R">>, <<69580, "other">>, <<69600, "R">>, <<69623, "other">>, <<69632, "L">>,
    <<69633, "NSM">>, <<69634, "L">>, <<69688, "NSM">>, <<69703, "L">>, <<69710, "other">>,
    <<69714, "ON">>, <<69734, "L">>, <<69744, "other">>, <<69759, "NSM">>, <<69762, "L">>,
    <<69811, "NSM">>, <<69815, "L">>, <<69817, "NSM">>, <<69819, "L">>, <<69826, "other">>,
    <<69837, "L">>, <<69838, "other">>, <<69840, "L">>, <<69865, "other">>, <<69872, "L">>,
    <<69882, "other">>, <<69888, "NSM">>, <<69891, "L">>, <<69927, "NSM">>, <<69932, "L">>,
    <<69933, "NSM">>, <<69941, "other">>, <<69942, "L">>, <<69960, "other">>, <<69968, "L">>,
    <<70003, "NSM">>, <<70004, "L">>, <<70007, "other">>, <<70016, "NSM">>, <<70018, "L">>,
    <<70070, "NSM">>, <<70079, "L">>, <<70089, "NSM">>, <<70093, "L">>, <<70095, "NSM">>,
    <<70096, "L">>, <<70112, "other">>, <<70113, "L">>, <<70133, "other">>, <<70144, "L">>,
    <<70162, "other">>, <<70163, "L">>, <<70191, "NSM">>, <<70194, "L">>, <<70196, "NSM">>,
    <<70197, "L">>, <<70198, "NSM">>, <<70200, "L">>, <<70206, "NSM">>, <<70207, "other">>,
    <<70272, "L">>, <<70279, "other">>, <<70280, "L">>, <<70281, "other">>, <<70282, "L">>,
    <<70286, "other">>, <<70287, "L">>, <<70302, "other">>, <<70303, "L">>, <<70314, "other">>,
    <<70320, "L">>, <<70367, "NSM">>, <<70368, "L">>, <<70371, "NSM">>, <<70379, "other">>,
    <<70384, "L">>, <<70394, "other">>, <<70400, "NSM">>, <<70402, "L">>, <<70404, "other">>,
    <<70405, "L">>, <<70413, "other">>, <<70415, "L">>, <<70417, "other">>, <<70419, "L">>,
    <<70441, "other">>, <<70442, "L">>, <<70449, "other">>, <<70450, "L">>, <<70452, "other">>,
    <<70453, "L">>, <<70458, "other">>, <<70459, "NSM">>, <<70461, "L">>, <<70464, "NSM">>,
    <<70465, "L">>, <<70469, "other">>, <<70471, "L">>, <<70473, "other">>, <<70475, "L">>,
    <<70478, "other">>, <<70480, "L">>, <<70481, "other">>, <<70487, "L">>, <<70488, "other">>,
    <<70493, "L">>, <<70500, "other">>, <<70502, "NSM">>, <<70509, "other">>, <<70512, "NSM">>,
    <<70517, "other">>, <<70656, "L">>, <<70712, "NSM">>, <<70720, "L">>, <<70722, "NSM">>,
    <<70725, "L">>, <<70726, "NSM">>, <<70727, "L">>, <<70748, "other">>, <<70749, "L">>,
    <<70750, "NSM">>, <<70751, "L">>, <<70754, "other">>, <<70784, "L">>, <<70835, "NSM">>,
    <<70841, "L">>, <<70842, "NSM">>, <<70843, "L">>, <<70847, "NSM">>, <<70849, "L">>,
    <<70850, "NSM">>, <<70852, "L">>, <<70856, "other">>, <<70864, "L">>, <<70874, "other">>,
    <<71040, "L">>, <<71090, "NSM">>, <<71094, "other">>, <<71096, "L">>, <<71100, "NSM">>,
    <<71102, "L">>, <<71103, "NSM">>, <<71105, "L">>, <<71132, "NSM">>, <<71134, "other">>,
    <<71168, "L">>, <<71219, "NSM">>, <<71227, "L">>, <<71229, "NSM">>, <<71230, "L">>,
    <<71231, "NSM">>, <<71233, "L">>, <<71237, "other">>, <<71248, "L">>, <<71258, "other">>,
    <<71264, "ON">>, <<71277, "other">>, <<71296, "L">>, <<71339, "NSM">>, <<71340, "L">>,
    <<71341, "NSM">>, <<71342, "L">>, <<71344, "NSM">>, <<71350, "L">>, <<71351, "NSM">>,
    <<71352, "L">>, <<71353, "other">>, <<71360, "L">>, <<71370, "other">>, <<71424, "L">>,
    <<71451, "other">>, <<71453, "NSM">>, <<71456, "L">>, <<71458, "NSM">>, <<71462, "L">>,
    <<71463, "NSM">>, <<71468, "other">>, <<71472, "L">>, <<71488, "other">>, <<71680, "L">>,
    <<71727, "NSM">>, <<71736, "L">>, <<71737, "NSM">>, <<71739, "L">>, <<71740, "other">>,
    <<71840, "L">>, <<71923, "other">>, <<71935, "L">>, <<71943, "other">>, <<71945, "L">>,
    <<71946, "other">>, <<71948, "L">>, <<71956, "other">>, <<71957, "L">>, <<71959, "other">>,
    <<71960, "L">>, <<71990, "other">>, <<71991, "L">>, <<71993, "other">>, <<71995, "NSM">>,
    <<71997, "L">>, <<71998, "NSM">>, <<71999, "L">>, <<72003, "NSM">>, <<72004, "L">>,
    <<72007, "other">>, <<72016, "L">>, <<72026, "other">>, <<72096, "L">>, <<72104, "other">>,
    <<72106, "L">>, <<72148, "NSM">>, <<72152, "other">>, <<72154, "NSM">>, <<72156, "L">>,
    <<72160, "NSM">>, <<72161, "L">>, <<72165, "other">>, <<72192, "L">>, <<72193, "NSM">>,
    <<72199, "L">>, <<72201, "NSM">>, <<72203, "L">>, <<72243, "NSM">>, <<72249, "L">>,
    <<72251, "NSM">>, <<72255, "L">>, <<72263, "NSM">>, <<72264, "other">>, <<72272, "L">>,
    <<72273, "NSM">>, <<72279, "L">>, <<72281, "NSM">>, <<72284, "L">>, <<72330, "NSM">>,
    <<72343, "L">>, <<72344, "NSM">>, <<72346, "L">>, <<72355, "other">>, <<72384, "L">>,
    <<72441, "other">>, <<72704, "L">>, <<72713, "other">>, <<72714, "L">>, <<72752, "NSM">>,
    <<72759, "other">>, <<72760, "NSM">>, <<72766, "L">>, <<72774, "other">>, <<72784, "L">>,
    <<72813, "other">>, <<72816, "L">>, <<72848, "other">>, <<72850, "NSM">>, <<72872, "other">>,
    <<72873, "L">>, <<72874, "NSM">>, <<72881, "L">>, <<72882, "NSM">>, <<72884, "L">>,
    <<72885, "NSM">>, <<72887, "other">>, <<72960, "L">>, <<72967, "other">>, <<72968, "L">>,
    <<72970, "other">>, <<72971, "L">>, <<73009, "NSM">>, <<73015, "other">>, <<73018, "NSM">>,
    <<73019, "other">>, <<73020, "NSM">>, <<73022, "other">>, <<73023, "NSM">>, <<73030, "L">>,
    <<73031, "NSM">>, <<73032, "other">>, <<73040, "L">>, <<73050, "other">>, <<73056, "L">>,
    <<73062, "other">>, <<73063, "L">>, <<73065, "other">>, <<73066, "L">>, <<73103, "other">>,
    <<73104, "NSM">>, <<73106, "other">>, <<73107, "L">>, <<73109, "NSM">>, <<73110, "L">>,
    <<73111, "NSM">>, <<73112, "L">>, <<73113, "other">>, <<73120, "L">>, <<73130, "other">>,
    <<73440, "L">>, <<73459, "NSM">>, <<73461, "L">>, <<73465, "other">>, <<73648, "L">>,
    <<73649, "other">>, <<73664, "L">>, <<73685, "ON">>, <<73693, "ET">>, <<73697, "ON">>,
    <<73714, "other">>, <<73727, "L">>, <<74650, "other">>, <<74752, "L">>, <<74863, "other">>,
    <<74864, "L">>, <<74869, "other">>, <<74880, "L">>, <<75076, "other">>, <<77824, "L">>,
    <<78895, "other">>, <<78896, "L">>, <<78905, "other">>, <<82944, "L">>, <<83527, "other">>,
    <<92160, "L">>, <<92729, "other">>, <<92736, "L">>, <<92767, "other">>, <<92768, "L">>,
    <<92778, "other">>, <<92782, "L">>, <<92784, "other">>, <<92880, "L">>, <<92910, "other">>,
    <<92912, "NSM">>, <<92917, "L">>, <<92918, "other">>, <<92928, "L">>, <<92976, "NSM">>,
    <<92983, "L">>, <<92998, "other">>, <<93008, "L">>, <<93018, "other">>, <<93019, "L">>,
    <<93026, "other">>, <<93027, "L">>, <<93048, "other">>, <<93053, "L">>, <<93072, "other">>,
    <<93760, "L">>, <<93851, "other">>, <<93952, "L">>, <<94027, "other">>, <<94031, "NSM">>,
    <<94032, "L">>, <<94088, "other">>, <<94095, "NSM">>, <<94099, "L">>, <<94112, "other">>,
    <<94176, "L">>, <<94178, "ON">>, <<94179, "L">>, <<94180, "NSM">>, <<94181, "other">>,
    <<94192, "L">>, <<94194, "other">>, <<94208, "L">>, <<100344, "other">>, <<100352, "L">>,
    <<101590, "other">>, <<101632, "L">>, <<101641, "other">>, <<110592, "L">>,
    <<110879, "other">>, <<110928, "L">>, <<110931, "other">>, <<110948, "L">>,
    <<110952, "other">>, <<110960, "L">>, <<111356, "other">>, <<113664, "L">>,
    <<113771, "other">>, <<113776, "L">>, <<113789, "other">>, <<113792, "L">>,
    <<113801, "other">>, <<113808, "L">>, <<113818, "other">>, <<113820, "L">>, <<113821, "NSM">>,
    <<113823, "L">>, <<113824, "BN">>, <<113828, "other">>, <<118784, "L">>, <<119030, "other">>,
    <<119040, "L">>, <<119079, "other">>, <<119081, "L">>, <<119143, "NSM">>, <<119146, "L">>,
    <<119155, "BN">>, <<119163, "NSM">>, <<119171, "L">>, <<119173, "NSM">>, <<119180, "L">>,
    <<119210, "NSM">>, <<119214, "L">>, <<119273, "other">>, <<119296, "ON">>, <<119362, "NSM">>,
    <<119365, "ON">>, <<119366, "other">>, <<119520, "L">>, <<119540, "other">>, <<119552, "ON">>,
    <<119639, "other">>, <<119648, "L">>, <<119673, "other">>, <<119808, "L">>,
    <<119893, "other">>, <<119894, "L">>, <<119965, "other">>, <<119966, "L">>,
    <<119968, "other">>, <<119970, "L">>, <<119971, "other">>, <<119973, "L">>,
    <<119975, "other">>, <<119977, "L">>, <<119981, "other">>, <<119982, "L">>,
    <<119994, "other">>, <<119995, "L">>, <<119996, "other">>, <<119997, "L">>,
    <<120004, "other">>, <<120005, "L">>, <<120070, "other">>, <<120071, "L">>,
    <<120075, "other">>, <<120077, "L">>, <<120085, "other">>, <<120086, "L">>,
    <<120093, "other">>, <<120094, "L">>, <<120122, "other">>, <<120123, "L">>,
    <<120127, "other">>, <<120128, "L">>, <<120133, "other">>, <<120134, "L">>,
    <<120135, "other">>, <<120138, "L">>, <<120145, "other">>, <<120146, "L">>,
    <<120486, "other">>, <<120488, "L">>, <<120539, "ON">>, <<120540, "L">>, <<120597, "ON">>,
    <<120598, "L">>, <<120655, "ON">>, <<120656, "L">>, <<120713, "ON">>, <<120714, "L">>,
    <<120771, "ON">>, <<120772, "L">>, <<120780, "other">>, <<120782, "EN">>, <<120832, "L">>,
    <<121344, "NSM">>, <<121399, "L">>, <<121403, "NSM">>, <<121453, "L">>, <<121461, "NSM">>,
    <<121462, "L">>, <<121476, "NSM">>, <<121477, "L">>, <<121484, "other">>, <<121499, "NSM">>,
    <<121504, "other">>, <<121505, "NSM">>, <<121520, "other">>, <<122880, "NSM">>,
    <<122887, "other">>, <<122888, "NSM">>, <<122905, "other">>, <<122907, "NSM">>,
    <<122914, "other">>, <<122915, "NSM">>, <<122917, "other">>, <<122918, "NSM">>,
    <<122923, "other">>, <<123136, "L">>, <<123181, "other">>, <<123184, "NSM">>, <<123191, "L">>,
    <<123198, "other">>, <<123200, "L">>, <<123210, "other">>, <<123214, "L">>,
    <<123216, "other">>, <<123584, "L">>, <<123628, "NSM">>, <<123632, "L">>, <<123642, "other">>,
    <<123647, "ET">>, <<123648, "other">>, <<124928, "R">>, <<125125, "other">>, <<125127, "R">>,
    <<125136, "NSM">>, <<125143, "other">>, <<125184, "R">>, <<125252, "NSM">>, <<125259, "R">>,
    <<125260, "other">>, <<125264, "R">>, <<125274, "other">>, <<125278, "R">>,
    <<125280, "other">>, <<126065, "AL">>, <<126133, "other">>, <<126209, "AL">>,
    <<126270, "other">>, <<126464, "AL">>, <<126468, "other">>, <<126469, "AL">>,
    <<126496, "other">>, <<126497, "AL">>, <<126499, "other">>, <<126500, "AL">>,
    <<126501, "other">>, <<126503, "AL">>, <<126504, "other">>, <<126505, "AL">>,
    <<126515, "other">>, <<126516, "AL">>, <<126520, "other">>, <<126521, "AL">>,
    <<126522, "other">>, <<126523, "AL">>, <<126524, "other">>, <<126530, "AL">>,
    <<126531, "other">>, <<126535, "AL">>, <<126536, "other">>, <<126537, "AL">>,
    <<126538, "other">>, <<126539, "AL">>, <<126540, "other">>, <<126541, "AL">>,
    <<126544, "other">>, <<126545, "AL">>, <<126547, "other">>, <<126548, "AL">>,
    <<126549, "other">>, <<126551, "AL">>, <<126552, "other">>, <<126553, "AL">>,
    <<126554, "other">>, <<126555, "AL">>, <<126556, "other">>, <<126557, "AL">>,
    <<126558, "other">>, <<126559, "AL">>, <<126560, "other">>, <<126561, "AL">>,
    <<126563, "other">>, <<126564, "AL">>, <<126565, "other">>, <<126567, "AL">>,
    <<126571, "other">>, <<126572, "AL">>, <<126579, "other">>, <<126580, "AL">>,
    <<126584, "other">>, <<126585, "AL">>, <<126589, "other">>, <<126590, "AL">>,
    <<126591, "other">>, <<126592, "AL">>, <<126602, "other">>, <<126603, "AL">>,
    <<126620, "other">>, <<126625, "AL">>, <<126628, "other">>, <<126629, "AL">>,
    <<126634, "other">>, <<126635, "AL">>, <<126652, "other">>, <<126704, "ON">>,
    <<126706, "other">>, <<126976, "ON">>, <<127020, "other">>, <<127024, "ON">>,
    <<127124, "other">>, <<127136, "ON">>, <<127151, "other">>, <<127153, "ON">>,
    <<127168, "other">>, <<127169, "ON">>, <<127184, "other">>, <<127185, "ON">>,
    <<127222, "other">>, <<127232, "EN">>, <<127243, "ON">>, <<127248, "L">>, <<127279, "ON">>,
    <<127280, "L">>, <<127338, "ON">>, <<127344, "L">>, <<127405, "ON">>, <<127406, "other">>,
    <<127462, "L">>, <<127491, "other">>, <<127504, "L">>, <<127548, "other">>, <<127552, "L">>,
    <<127561, "other">>, <<127568, "L">>, <<127570, "other">>, <<127584, "ON">>,
    <<127590, "other">>, <<127744, "ON">>, <<128728, "other">>, <<128736, "ON">>,
    <<128749, "other">>, <<128752, "ON">>, <<128765, "other">>, <<128768, "ON">>,
    <<128884, "other">>, <<128896, "ON">>, <<128985, "other">>, <<128992, "ON">>,
    <<129004, "other">>, <<129024, "ON">>, <<129036, "other">>, <<129040, "ON">>,
    <<129096, "other">>, <<129104, "ON">>, <<129114, "other">>, <<129120, "ON">>,
    <<129160, "other">>, <<129168, "ON">>, <<129198, "other">>, <<129200, "ON">>,
    <<129202, "other">>, <<129280, "ON">>, <<129401, "other">>, <<129402, "ON">>,
    <<129484, "other">>, <<129485, "ON">>, <<129620, "other">>, <<129632, "ON">>,
    <<129646, "other">>, <<129648, "ON">>, <<129653, "other">>, <<129656, "ON">>,
    <<129659, "other">>, <<129664, "ON">>, <<129671, "other">>, <<129680, "ON">>,
    <<129705, "other">>, <<129712, "ON">>, <<129719, "other">>, <<129728, "ON">>,
    <<129731, "other">>, <<129744, "ON">>, <<129751, "other">>, <<129792, "ON">>,
    <<129939, "other">>, <<129940, "ON">>, <<129995, "other">>, <<130032, "EN">>,
    <<130042, "other">>, <<131070, "BN">>, <<131072, "L">>, <<173790, "other">>, <<173824, "L">>,
    <<177973, "other">>, <<177984, "L">>, <<178206, "other">>, <<178208, "L">>,
    <<183970, "other">>, <<183984, "L">>, <<191457, "other">>, <<194560, "L">>,
    <<195102, "other">>, <<196606, "BN">>, <<196608, "L">>, <<201547, "other">>, <<262142, "BN">>,
    <<262144, "other">>, <<327678, "BN">>, <<327680, "other">>, <<393214, "BN">>,
    <<393216, "other">>, <<458750, "BN">>, <<458752, "other">>, <<524286, "BN">>,
    <<524288, "other">>, <<589822, "BN">>, <<589824, "other">>, <<655358, "BN">>,
    <<655360, "other">>, <<720894, "BN">>, <<720896, "other">>, <<786430, "BN">>,
    <<786432, "other">>, <<851966, "BN">>, <<851968, "other">>, <<917502, "BN">>,
    <<917504, "other">>, <<917505, "BN">>, <<917506, "other">>, <<917536, "BN">>,
    <<917632, "other">>, <<917760, "NSM">>, <<918000, "other">>, <<983038, "BN">>,
    <<983040, "L">>, <<1048574, "BN">>, <<1048576, "L">>, <<1114110, "BN">>>>

\* normalization: Canonical_Combining_Class, <<first code point, class>>
CombiningClassTable == <<
    <<0, 0>>, <<768, 230>>, <<789, 232>>, <<790, 220>>, <<794, 232>>, <<795, 216>>, <<796, 220>>,
    <<801, 202>>, <<803, 220>>, <<807, 202>>, <<809, 220>>, <<820, 1>>, <<825, 220>>,
    <<829, 230>>, <<837, 240>>, <<838, 230>>, <<839, 220>>, <<842, 230>>, <<845, 220>>,
    <<847, 0>>, <<848, 230>>, <<851, 220>>, <<855, 230>>, <<856, 232>>, <<857, 220>>,
    <<859, 230>>, <<860, 233>>, <<861, 234>>, <<863, 233>>, <<864, 234>>, <<866, 233>>,
    <<867, 230>>, <<880, 0>>, <<1155, 230>>, <<1160, 0>>, <<1425, 220>>, <<1426, 230>>,
    <<1430, 220>>, <<1431, 230>>, <<1434, 222>>, <<1435, 220>>, <<1436, 230>>, <<1442, 220>>,
    <<1448, 230>>, <<1450, 220>>, <<1451, 230>>, <<1453, 222>>, <<1454, 228>>, <<1455, 230>>,
    <<1456, 10>>, <<1457, 11>>, <<1458, 12>>, <<1459, 13>>, <<1460, 14>>, <<1461, 15>>,
    <<1462, 16>>, <<1463, 17>>, <<1464, 18>>, <<1465, 19>>, <<1467, 20>>, <<1468, 21>>,
    <<1469, 22>>, <<1470, 0>>, <<1471, 23>>, <<1472, 0>>, <<1473, 24>>, <<1474, 25>>, <<1475, 0>>,
    <<1476, 230>>, <<1477, 220>>, <<1478, 0>>, <<1479, 18>>, <<1480, 0>>, <<1552, 230>>,
    <<1560, 30>>, <<1561, 31>>, <<1562, 32>>, <<1563, 0>>, <<1611, 27>>, <<1612, 28>>,
    <<1613, 29>>, <<1614, 30>>, <<1615, 31>>, <<1616, 32>>, <<1617, 33>>, <<1618, 34>>,
    <<1619, 230>>, <<1621, 220>>, <<1623, 230>>, <<1628, 220>>, <<1629, 230>>, <<1631, 220>>,
    <<1632, 0>>, <<1648, 35>>, <<1649, 0>>, <<1750, 230>>, <<1757, 0>>, <<1759, 230>>,
    <<1763, 220>>, <<1764, 230>>, <<1765, 0>>, <<1767, 230>>, <<1769, 0>>, <<1770, 220>>,
    <<1771, 230>>, <<1773, 220>>, <<1774, 0>>, <<1809, 36>>, <<1810, 0>>, <<1840, 230>>,
    <<1841, 220>>, <<1842, 230>>, <<1844, 220>>, <<1845, 230>>, <<1847, 220>>, <<1850, 230>>,
    <<1851, 220>>, <<1853, 230>>, <<1854, 220>>, <<1855, 230>>, <<1858, 220>>, <<1859, 230>>,
    <<1860, 220>>, <<1861, 230>>, <<1862, 220>>, <<1863, 230>>, <<1864, 220>>, <<1865, 230>>,
    <<1867, 0>>, <<2027, 230>>, <<2034, 220>>, <<2035, 230>>, <<2036, 0>>, <<2045, 220>>,
    <<2046, 0>>, <<2070, 230>>, <<2074, 0>>, <<2075, 230>>, <<2084, 0>>, <<2085, 230>>,
    <<2088, 0>>, <<2089, 230>>, <<2094, 0>>, <<2137, 220>>, <<2140, 0>>, <<2200, 230>>,
    <<2201, 220>>, <<2204, 230>>, <<2208, 0>>, <<2250, 230>>, <<2255, 220>>, <<2260, 230>>,
    <<2274, 0>>, <<2275, 220>>, <<2276, 230>>, <<2278, 220>>, <<2279, 230>>, <<2281, 220>>,
    <<2282, 230>>, <<2285, 220>>, <<2288, 27>>, <<2289, 28>>, <<2290, 29>>, <<2291, 230>>,
    <<2294, 220>>, <<2295, 230>>, <<2297, 220>>, <<2299, 230>>, <<2304, 0>>, <<2364, 7>>,
    <<2365, 0>>, <<2381, 9>>, <<2382, 0>>, <<2385, 230>>, <<2386, 220>>, <<2387, 230>>,
    <<2389, 0>>, <<2492, 7>>, <<2493, 0>>, <<2509, 9>>, <<2510, 0>>, <<2558, 230>>, <<2559, 0>>,
    <<2620, 7>>, <<2621, 0>>, <<2637, 9>>, <<2638, 0>>, <<2748, 7>>, <<2749, 0>>, <<2765, 9>>,
    <<2766, 0>>, <<2876, 7>>, <<2877, 0>>, <<2893, 9>>, <<2894, 0>>, <<3021, 9>>, <<3022, 0>>,
    <<3132, 7>>, <<3133, 0>>, <<3149, 9>>, <<3150, 0>>, <<3157, 84>>, <<3158, 91>>, <<3159, 0>>,
    <<3260, 7>>, <<3261, 0>>, <<3277, 9>>, <<3278, 0>>, <<3387, 9>>, <<3389, 0>>, <<3405, 9>>,
    <<3406, 0>>, <<3530, 9>>, <<3531, 0>>, <<3640, 103>>, <<3642, 9>>, <<3643, 0>>, <<3656, 107>>,
    <<3660, 0>>, <<3768, 118>>, <<3770, 9>>, <<3771, 0>>, <<3784, 122>>, <<3788, 0>>,
    <<3864, 220>>, <<3866, 0>>, <<3893, 220>>, <<3894, 0>>, <<3895, 220>>, <<3896, 0>>,
    <<3897, 216>>, <<3898, 0>>, <<3953, 129>>, <<3954, 130>>, <<3955, 0>>, <<3956, 132>>,
    <<3957, 0>>, <<3962, 130>>, <<3966, 0>>, <<3968, 130>>, <<3969, 0>>, <<3970, 230>>,
    <<3972, 9>>, <<3973, 0>>, <<3974, 230>>, <<3976, 0>>, <<4038, 220>>, <<4039, 0>>, <<4151, 7>>,
    <<4152, 0>>, <<4153, 9>>, <<4155, 0>>, <<4237, 220>>, <<4238, 0>>, <<4957, 230>>, <<4960, 0>>,
    <<5908, 9>>, <<5910, 0>>, <<5940, 9>>, <<5941, 0>>, <<6098, 9>>, <<6099, 0>>, <<6109, 230>>,
    <<6110, 0>>, <<6313, 228>>, <<6314, 0>>, <<6457, 222>>, <<6458, 230>>, <<6459, 220>>,
    <<6460, 0>>, <<6679, 230>>, <<6680, 220>>, <<6681, 0>>, <<6752, 9>>, <<6753, 0>>,
    <<6773, 230>>, <<6781, 0>>, <<6783, 220>>, <<6784, 0>>, <<6832, 230>>, <<6837, 220>>,
    <<6843, 230>>, <<6845, 220>>, <<6846, 0>>, <<6847, 220>>, <<6849, 230>>, <<6851, 220>>,
    <<6853, 230>>, <<6858, 220>>, <<6859, 230>>, <<6863, 0>>, <<6964, 7>>, <<6965, 0>>,
    <<6980, 9>>, <<6981, 0>>, <<7019, 230>>, <<7020, 220>>, <<7021, 230>>, <<7028, 0>>,
    <<7082, 9>>, <<7084, 0>>, <<7142, 7>>, <<7143, 0>>, <<7154, 9>>, <<7156, 0>>, <<7223, 7>>,
    <<7224, 0>>, <<7376, 230>>, <<7379, 0>>, <<7380, 1>>, <<7381, 220>>, <<7386, 230>>,
    <<7388, 220>>, <<7392, 230>>, <<7393, 0>>, <<7394, 1>>, <<7401, 0>>, <<7405, 220>>,
    <<7406, 0>>, <<7412, 230>>, <<7413, 0>>, <<7416, 230>>, <<7418, 0>>, <<7616, 230>>,
    <<7618, 220>>, <<7619, 230>>, <<7626, 220>>, <<7627, 230>>, <<7629, 234>>, <<7630, 214>>,
    <<7631, 220>>, <<7632, 202>>, <<7633, 230>>, <<7670, 232>>, <<7671, 228>>, <<7673, 220>>,
    <<7674, 218>>, <<7675, 230>>, <<7676, 233>>, <<7677, 220>>, <<7678, 230>>, <<7679, 220>>,
    <<7680, 0>>, <<8400, 230>>, <<8402, 1>>, <<8404, 230>>, <<8408, 1>>, <<8411, 230>>,
    <<8413, 0>>, <<8417, 230>>, <<8418, 0>>, <<8421, 1>>, <<8423, 230>>, <<8424, 220>>,
    <<8425, 230>>, <<8426, 1>>, <<8428, 220>>, <<8432, 230>>, <<8433, 0>>, <<11503, 230>>,
    <<11506, 0>>, <<11647, 9>>, <<11648, 0>>, <<11744, 230>>, <<11776, 0>>, <<12330, 218>>,
    <<12331, 228>>, <<12332, 232>>, <<12333, 222>>, <<12334, 224>>, <<12336, 0>>, <<12441, 8>>,
    <<12443, 0>>, <<42607, 230>>, <<42608, 0>>, <<42612, 230>>, <<42622, 0>>, <<42654, 230>>,
    <<42656, 0>>, <<42736, 230>>, <<42738, 0>>, <<43014, 9>>, <<43015, 0>>, <<43052, 9>>,
    <<43053, 0>>, <<43204, 9>>, <<43205, 0>>, <<43232, 230>>, <<43250, 0>>, <<43307, 220>>,
    <<43310, 0>>, <<43347, 9>>, <<43348, 0>>, <<43443, 7>>, <<43444, 0>>, <<43456, 9>>,
    <<43457, 0>>, <<43696, 230>>, <<43697, 0>>, <<43698, 230>>, <<43700, 220>>, <<43701, 0>>,
    <<43703, 230>>, <<43705, 0>>, <<43710, 230>>, <<43712, 0>>, <<43713, 230>>, <<43714, 0>>,
    <<43766, 9>>, <<43767, 0>>, <<44013, 9>>, <<44014, 0>>, <<64286, 26>>, <<64287, 0>>,
    <<65056, 230>>, <<65063, 220>>, <<65070, 230>>, <<65072, 0>>, <<66045, 220>>, <<66046, 0>>,
    <<66272, 220>>, <<66273, 0>>, <<66422, 230>>, <<66427, 0>>, <<68109, 220>>, <<68110, 0>>,
    <<68111, 230>>, <<68112, 0>>, <<68152, 230>>, <<68153, 1>>, <<68154, 220>>, <<68155, 0>>,
    <<68159, 9>>, <<68160, 0>>, <<68325, 230>>, <<68326, 220>>, <<68327, 0>>, <<68900, 230>>,
    <<68904, 0>>, <<69291, 230>>, <<69293, 0>>, <<69373, 220>>, <<69376, 0>>, <<69446, 220>>,
    <<69448, 230>>, <<69451, 220>>, <<69452, 230>>, <<69453, 220>>, <<69457, 0>>, <<69506, 230>>,
    <<69507, 220>>, <<69508, 230>>, <<69509, 220>>, <<69510, 0>>, <<69702, 9>>, <<69703, 0>>,
    <<69744, 9>>, <<69745, 0>>, <<69759, 9>>, <<69760, 0>>, <<69817, 9>>, <<69818, 7>>,
    <<69819, 0>>, <<69888, 230>>, <<69891, 0>>, <<69939, 9>>, <<69941, 0>>, <<70003, 7>>,
    <<70004, 0>>, <<70080, 9>>, <<70081, 0>>, <<70090, 7>>, <<70091, 0>>, <<70197, 9>>,
    <<70198, 7>>, <<70199, 0>>, <<70377, 7>>, <<70378, 9>>, <<70379, 0>>, <<70459, 7>>,
    <<70461, 0>>, <<70477, 9>>, <<70478, 0>>, <<70502, 230>>, <<70509, 0>>, <<70512, 230>>,
    <<70517, 0>>, <<70722, 9>>, <<70723, 0>>, <<70726, 7>>, <<70727, 0>>, <<70750, 230>>,
    <<70751, 0>>, <<70850, 9>>, <<70851, 7>>, <<70852, 0>>, <<71103, 9>>, <<71104, 7>>,
    <<71105, 0>>, <<71231, 9>>, <<71232, 0>>, <<71350, 9>>, <<71351, 7>>, <<71352, 0>>,
    <<71467, 9>>, <<71468, 0>>, <<71737, 9>>, <<71738, 7>>, <<71739, 0>>, <<71997, 9>>,
    <<71999, 0>>, <<72003, 7>>, <<72004, 0>>, <<72160, 9>>, <<72161, 0>>, <<72244, 9>>,
    <<72245, 0>>, <<72263, 9>>, <<72264, 0>>, <<72345, 9>>, <<72346, 0>>, <<72767, 9>>,
    <<72768, 0>>, <<73026, 7>>, <<73027, 0>>, <<73028, 9>>, <<73030, 0>>, <<73111, 9>>,
    <<73112, 0>>, <<73537, 9>>, <<73539, 0>>, <<92912, 1>>, <<92917, 0>>, <<92976, 230>>,
    <<92983, 0>>, <<94192, 6>>, <<94194, 0>>, <<113822, 1>>, <<113823, 0>>, <<119141, 216>>,
    <<119143, 1>>, <<119146, 0>>, <<119149, 226>>, <<119150, 216>>, <<119155, 0>>,
    <<119163, 220>>, <<119171, 0>>, <<119173, 230>>, <<119178, 220>>, <<119180, 0>>,
    <<119210, 230>>, <<119214, 0>>, <<119362, 230>>, <<119365, 0>>, <<122880, 230>>,
    <<122887, 0>>, <<122888, 230>>, <<122905, 0>>, <<122907, 230>>, <<122914, 0>>,
    <<122915, 230>>, <<122917, 0>>, <<122918, 230>>, <<122923, 0>>, <<123023, 230>>,
    <<123024, 0>>, <<123184, 230>>, <<123191, 0>>, <<123566, 230>>, <<123567, 0>>,
    <<123628, 230>>, <<123632, 0>>, <<124140, 232>>, <<124142, 220>>, <<124143, 230>>,
    <<124144, 0>>, <<125136, 220>>, <<125143, 0>>, <<125252, 230>>, <<125258, 7>>, <<125259, 0>>>>

\* is_label_valid, L, R and D: Joining_Type, <<first code point, type>>, with
\* "U" for the others.  The lists hold the letters up to U+0766 (Arabic,
\* Syriac), U+0850 to U+0855 (Mandaic), U+08A0 and U+08A2 to U+08AC (Arabic
\* Extended-A), U+1807, U+1820 to U+1877, U+1887 to U+18A8 and U+18AA
\* (Mongolian), and U+A840 to U+A872 (Phags-pa); no others, so none of NKo.
JoiningTypeTable == <<
    <<0, "U">>, <<1568, "D">>, <<1569, "U">>, <<1570, "R">>, <<1574, "D">>, <<1575, "R">>,
    <<1576, "D">>, <<1577, "R">>, <<1578, "D">>, <<1583, "R">>, <<1587, "D">>, <<1600, "U">>,
    <<1601, "D">>, <<1608, "R">>, <<1609, "D">>, <<1611, "U">>, <<1646, "D">>, <<1648, "U">>,
    <<1649, "R">>, <<1652, "U">>, <<1653, "R">>, <<1656, "D">>, <<1672, "R">>, <<1690, "D">>,
    <<1728, "R">>, <<1729, "D">>, <<1731, "R">>, <<1740, "D">>, <<1741, "R">>, <<1742, "D">>,
    <<1743, "R">>, <<1744, "D">>, <<1746, "R">>, <<1748, "U">>, <<1749, "R">>, <<1750, "U">>,
    <<1774, "R">>, <<1776, "U">>, <<1786, "D">>, <<1789, "U">>, <<1791, "D">>, <<1792, "U">>,
    <<1808, "R">>, <<1809, "U">>, <<1810, "D">>, <<1813, "R">>, <<1818, "D">>, <<1822, "R">>,
    <<1823, "D">>, <<1832, "R">>, <<1833, "D">>, <<1834, "R">>, <<1835, "D">>, <<1836, "R">>,
    <<1837, "D">>, <<1839, "R">>, <<1840, "U">>, <<1869, "R">>, <<1870, "D">>, <<1881, "R">>,
    <<1884, "D">>, <<1895, "U">>, <<2128, "D">>, <<2132, "R">>, <<2133, "D">>, <<2134, "U">>,
    <<2208, "D">>, <<2209, "U">>, <<2210, "D">>, <<2218, "R">>, <<2221, "U">>, <<6151, "D">>,
    <<6152, "U">>, <<6176, "D">>, <<6264, "U">>, <<6279, "D">>, <<6313, "U">>, <<6314, "D">>,
    <<6315, "U">>, <<43072, "D">>, <<43122, "L">>, <<43123, "U">>>>

\* is_label_valid, virama: Canonical_Combining_Class is 9
Virama ==
    {2381, 2509, 2637, 2765, 2893, 3021, 3149, 3277, 3387, 3388,
     3405, 3530, 3642, 3770, 3972, 4153, 4154, 5908, 5940, 6098,
     6752, 6980, 7082, 7083, 7154, 7155, 11647, 43014, 43052, 43204,
     43347, 43456, 43766, 44013, 68159, 69702, 69759, 69817, 69939, 69940,
     70080, 70197, 70378, 70477, 70722, 70850, 71103, 71231, 71350, 71467,
     71737, 71997, 71998, 72160, 72244, 72263, 72345, 72767, 73028, 73029,
     73111}

\* the full canonical decomposition of every code point that has one, but
\* for the Hangul syllables: <<code point, decomposition>>, in order
DecompositionTable == <<
    <<192, <<65, 768>>>>, <<193, <<65, 769>>>>, <<194, <<65, 770>>>>, <<195, <<65, 771>>>>,
    <<196, <<65, 776>>>>, <<197, <<65, 778>>>>, <<199, <<67, 807>>>>, <<200, <<69, 768>>>>,
    <<201, <<69, 769>>>>, <<202, <<69, 770>>>>, <<203, <<69, 776>>>>, <<204, <<73, 768>>>>,
    <<205, <<73, 769>>>>, <<206, <<73, 770>>>>, <<207, <<73, 776>>>>, <<209, <<78, 771>>>>,
    <<210, <<79, 768>>>>, <<211, <<79, 769>>>>, <<212, <<79, 770>>>>, <<213, <<79, 771>>>>,
    <<214, <<79, 776>>>>, <<217, <<85, 768>>>>, <<218, <<85, 769>>>>, <<219, <<85, 770>>>>,
    <<220, <<85, 776>>>>, <<221, <<89, 769>>>>, <<224, <<97, 768>>>>, <<225, <<97, 769>>>>,
    <<226, <<97, 770>>>>, <<227, <<97, 771>>>>, <<228, <<97, 776>>>>, <<229, <<97, 778>>>>,
    <<231, <<99, 807>>>>, <<232, <<101, 768>>>>, <<233, <<101, 769>>>>, <<234, <<101, 770>>>>,
    <<235, <<101, 776>>>>, <<236, <<105, 768>>>>, <<237, <<105, 769>>>>, <<238, <<105, 770>>>>,
    <<239, <<105, 776>>>>, <<241, <<110, 771>>>>, <<242, <<111, 768>>>>, <<243, <<111, 769>>>>,
    <<244, <<111, 770>>>>, <<245, <<111, 771>>>>, <<246, <<111, 776>>>>, <<249, <<117, 768>>>>,
    <<250, <<117, 769>>>>, <<251, <<117, 770>>>>, <<252, <<117, 776>>>>, <<253, <<121, 769>>>>,
    <<255, <<121, 776>>>>, <<256, <<65, 772>>>>, <<257, <<97, 772>>>>, <<258, <<65, 774>>>>,
    <<259, <<97, 774>>>>, <<260, <<65, 808>>>>, <<261, <<97, 808>>>>, <<262, <<67, 769>>>>,
    <<263, <<99, 769>>>>, <<264, <<67, 770>>>>, <<265, <<99, 770>>>>, <<266, <<67, 775>>>>,
    <<267, <<99, 775>>>>, <<268, <<67, 780>>>>, <<269, <<99, 780>>>>, <<270, <<68, 780>>>>,
    <<271, <<100, 780>>>>, <<274, <<69, 772>>>>, <<275, <<101, 772>>>>, <<276, <<69, 774>>>>,
    <<277, <<101, 774>>>>, <<278, <<69, 775>>>>, <<279, <<101, 775>>>>, <<280, <<69, 808>>>>,
    <<281, <<101, 808>>>>, <<282, <<69, 780>>>>, <<283, <<101, 780>>>>, <<284, <<71, 770>>>>,
    <<285, <<103, 770>>>>, <<286, <<71, 774>>>>, <<287, <<103, 774>>>>, <<288, <<71, 775>>>>,
    <<289, <<103, 775>>>>, <<290, <<71, 807>>>>, <<291, <<103, 807>>>>, <<292, <<72, 770>>>>,
    <<293, <<104, 770>>>>, <<296, <<73, 771>>>>, <<297, <<105, 771>>>>, <<298, <<73, 772>>>>,
    <<299, <<105, 772>>>>, <<300, <<73, 774>>>>, <<301, <<105, 774>>>>, <<302, <<73, 808>>>>,
    <<303, <<105, 808>>>>, <<304, <<73, 775>>>>, <<308, <<74, 770>>>>, <<309, <<106, 770>>>>,
    <<310, <<75, 807>>>>, <<311, <<107, 807>>>>, <<313, <<76, 769>>>>, <<314, <<108, 769>>>>,
    <<315, <<76, 807>>>>, <<316, <<108, 807>>>>, <<317, <<76, 780>>>>, <<318, <<108, 780>>>>,
    <<323, <<78, 769>>>>, <<324, <<110, 769>>>>, <<325, <<78, 807>>>>, <<326, <<110, 807>>>>,
    <<327, <<78, 780>>>>, <<328, <<110, 780>>>>, <<332, <<79, 772>>>>, <<333, <<111, 772>>>>,
    <<334, <<79, 774>>>>, <<335, <<111, 774>>>>, <<336, <<79, 779>>>>, <<337, <<111, 779>>>>,
    <<340, <<82, 769>>>>, <<341, <<114, 769>>>>, <<342, <<82, 807>>>>, <<343, <<114, 807>>>>,
    <<344, <<82, 780>>>>, <<345, <<114, 780>>>>, <<346, <<83, 769>>>>, <<347, <<115, 769>>>>,
    <<348, <<83, 770>>>>, <<349, <<115, 770>>>>, <<350, <<83, 807>>>>, <<351, <<115, 807>>>>,
    <<352, <<83, 780>>>>, <<353, <<115, 780>>>>, <<354, <<84, 807>>>>, <<355, <<116, 807>>>>,
    <<356, <<84, 780>>>>, <<357, <<116, 780>>>>, <<360, <<85, 771>>>>, <<361, <<117, 771>>>>,
    <<362, <<85, 772>>>>, <<363, <<117, 772>>>>, <<364, <<85, 774>>>>, <<365, <<117, 774>>>>,
    <<366, <<85, 778>>>>, <<367, <<117, 778>>>>, <<368, <<85, 779>>>>, <<369, <<117, 779>>>>,
    <<370, <<85, 808>>>>, <<371, <<117, 808>>>>, <<372, <<87, 770>>>>, <<373, <<119, 770>>>>,
    <<374, <<89, 770>>>>, <<375, <<121, 770>>>>, <<376, <<89, 776>>>>, <<377, <<90, 769>>>>,
    <<378, <<122, 769>>>>, <<379, <<90, 775>>>>, <<380, <<122, 775>>>>, <<381, <<90, 780>>>>,
    <<382, <<122, 780>>>>, <<416, <<79, 795>>>>, <<417, <<111, 795>>>>, <<431, <<85, 795>>>>,
    <<432, <<117, 795>>>>, <<461, <<65, 780>>>>, <<462, <<97, 780>>>>, <<463, <<73, 780>>>>,
    <<464, <<105, 780>>>>, <<465, <<79, 780>>>>, <<466, <<111, 780>>>>, <<467, <<85, 780>>>>,
    <<468, <<117, 780>>>>, <<469, <<85, 776, 772>>>>, <<470, <<117, 776, 772>>>>,
    <<471, <<85, 776, 769>>>>, <<472, <<117, 776, 769>>>>, <<473, <<85, 776, 780>>>>,
    <<474, <<117, 776, 780>>>>, <<475, <<85, 776, 768>>>>, <<476, <<117, 776, 768>>>>,
    <<478, <<65, 776, 772>>>>, <<479, <<97, 776, 772>>>>, <<480, <<65, 775, 772>>>>,
    <<481, <<97, 775, 772>>>>, <<482, <<198, 772>>>>, <<483, <<230, 772>>>>, <<486, <<71, 780>>>>,
    <<487, <<103, 780>>>>, <<488, <<75, 780>>>>, <<489, <<107, 780>>>>, <<490, <<79, 808>>>>,
    <<491, <<111, 808>>>>, <<492, <<79, 808, 772>>>>, <<493, <<111, 808, 772>>>>,
    <<494, <<439, 780>>>>, <<495, <<658, 780>>>>, <<496, <<106, 780>>>>, <<500, <<71, 769>>>>,
    <<501, <<103, 769>>>>, <<504, <<78, 768>>>>, <<505, <<110, 768>>>>, <<506, <<65, 778, 769>>>>,
    <<507, <<97, 778, 769>>>>, <<508, <<198, 769>>>>, <<509, <<230, 769>>>>,
    <<510, <<216, 769>>>>, <<511, <<248, 769>>>>, <<512, <<65, 783>>>>, <<513, <<97, 783>>>>,
    <<514, <<65, 785>>>>, <<515, <<97, 785>>>>, <<516, <<69, 783>>>>, <<517, <<101, 783>>>>,
    <<518, <<69, 785>>>>, <<519, <<101, 785>>>>, <<520, <<73, 783>>>>, <<521, <<105, 783>>>>,
    <<522, <<73, 785>>>>, <<523, <<105, 785>>>>, <<524, <<79, 783>>>>, <<525, <<111, 783>>>>,
    <<526, <<79, 785>>>>, <<527, <<111, 785>>>>, <<528, <<82, 783>>>>, <<529, <<114, 783>>>>,
    <<530, <<82, 785>>>>, <<531, <<114, 785>>>>, <<532, <<85, 783>>>>, <<533, <<117, 783>>>>,
    <<534, <<85, 785>>>>, <<535, <<117, 785>>>>, <<536, <<83, 806>>>>, <<537, <<115, 806>>>>,
    <<538, <<84, 806>>>>, <<539, <<116, 806>>>>, <<542, <<72, 780>>>>, <<543, <<104, 780>>>>,
    <<550, <<65, 775>>>>, <<551, <<97, 775>>>>, <<552, <<69, 807>>>>, <<553, <<101, 807>>>>,
    <<554, <<79, 776, 772>>>>, <<555, <<111, 776, 772>>>>, <<556, <<79, 771, 772>>>>,
    <<557, <<111, 771, 772>>>>, <<558, <<79, 775>>>>, <<559, <<111, 775>>>>,
    <<560, <<79, 775, 772>>>>, <<561, <<111, 775, 772>>>>, <<562, <<89, 772>>>>,
    <<563, <<121, 772>>>>, <<832, <<768>>>>, <<833, <<769>>>>, <<835, <<787>>>>,
    <<836, <<776, 769>>>>, <<884, <<697>>>>, <<894, <<59>>>>, <<901, <<168, 769>>>>,
    <<902, <<913, 769>>>>, <<903, <<183>>>>, <<904, <<917, 769>>>>, <<905, <<919, 769>>>>,
    <<906, <<921, 769>>>>, <<908, <<927, 769>>>>, <<910, <<933, 769>>>>, <<911, <<937, 769>>>>,
    <<912, <<953, 776, 769>>>>, <<938, <<921, 776>>>>, <<939, <<933, 776>>>>,
    <<940, <<945, 769>>>>, <<941, <<949, 769>>>>, <<942, <<951, 769>>>>, <<943, <<953, 769>>>>,
    <<944, <<965, 776, 769>>>>, <<970, <<953, 776>>>>, <<971, <<965, 776>>>>,
    <<972, <<959, 769>>>>, <<973, <<965, 769>>>>, <<974, <<969, 769>>>>, <<979, <<978, 769>>>>,
    <<980, <<978, 776>>>>, <<1024, <<1045, 768>>>>, <<1025, <<1045, 776>>>>,
    <<1027, <<1043, 769>>>>, <<1031, <<1030, 776>>>>, <<1036, <<1050, 769>>>>,
    <<1037, <<1048, 768>>>>, <<1038, <<1059, 774>>>>, <<1049, <<1048, 774>>>>,
    <<1081, <<1080, 774>>>>, <<1104, <<1077, 768>>>>, <<1105, <<1077, 776>>>>,
    <<1107, <<1075, 769>>>>, <<1111, <<1110, 776>>>>, <<1116, <<1082, 769>>>>,
    <<1117, <<1080, 768>>>>, <<1118, <<1091, 774>>>>, <<1142, <<1140, 783>>>>,
    <<1143, <<1141, 783>>>>, <<1217, <<1046, 774>>>>, <<1218, <<1078, 774>>>>,
    <<1232, <<1040, 774>>>>, <<1233, <<1072, 774>>>>, <<1234, <<1040, 776>>>>,
    <<1235, <<1072, 776>>>>, <<1238, <<1045, 774>>>>, <<1239, <<1077, 774>>>>,
    <<1242, <<1240, 776>>>>, <<1243, <<1241, 776>>>>, <<1244, <<1046, 776>>>>,
    <<1245, <<1078, 776>>>>, <<1246, <<1047, 776>>>>, <<1247, <<1079, 776>>>>,
    <<1250, <<1048, 772>>>>, <<1251, <<1080, 772>>>>, <<1252, <<1048, 776>>>>,
    <<1253, <<1080, 776>>>>, <<1254, <<1054, 776>>>>, <<1255, <<1086, 776>>>>,
    <<1258, <<1256, 776>>>>, <<1259, <<1257, 776>>>>, <<1260, <<1069, 776>>>>,
    <<1261, <<1101, 776>>>>, <<1262, <<1059, 772>>>>, <<1263, <<1091, 772>>>>,
    <<1264, <<1059, 776>>>>, <<1265, <<1091, 776>>>>, <<1266, <<1059, 779>>>>,
    <<1267, <<1091, 779>>>>, <<1268, <<1063, 776>>>>, <<1269, <<1095, 776>>>>,
    <<1272, <<1067, 776>>>>, <<1273, <<1099, 776>>>>, <<1570, <<1575, 1619>>>>,
    <<1571, <<1575, 1620>>>>, <<1572, <<1608, 1620>>>>, <<1573, <<1575, 1621>>>>,
    <<1574, <<1610, 1620>>>>, <<1728, <<1749, 1620>>>>, <<1730, <<1729, 1620>>>>,
    <<1747, <<1746, 1620>>>>, <<2345, <<2344, 2364>>>>, <<2353, <<2352, 2364>>>>,
    <<2356, <<2355, 2364>>>>, <<2392, <<2325, 2364>>>>, <<2393, <<2326, 2364>>>>,
    <<2394, <<2327, 2364>>>>, <<2395, <<2332, 2364>>>>, <<2396, <<2337, 2364>>>>,
    <<2397, <<2338, 2364>>>>, <<2398, <<2347, 2364>>>>, <<2399, <<2351, 2364>>>>,
    <<2507, <<2503, 2494>>>>, <<2508, <<2503, 2519>>>>, <<2524, <<2465, 2492>>>>,
    <<2525, <<2466, 2492>>>>, <<2527, <<2479, 2492>>>>, <<2611, <<2610, 2620>>>>,
    <<2614, <<2616, 2620>>>>, <<2649, <<2582, 2620>>>>, <<2650, <<2583, 2620>>>>,
    <<2651, <<2588, 2620>>>>, <<2654, <<2603, 2620>>>>, <<2888, <<2887, 2902>>>>,
    <<2891, <<2887, 2878>>>>, <<2892, <<2887, 2903>>>>, <<2908, <<2849, 2876>>>>,
    <<2909, <<2850, 2876>>>>, <<2964, <<2962, 3031>>>>, <<3018, <<3014, 3006>>>>,
    <<3019, <<3015, 3006>>>>, <<3020, <<3014, 3031>>>>, <<3144, <<3142, 3158>>>>,
    <<3264, <<3263, 3285>>>>, <<3271, <<3270, 3285>>>>, <<3272, <<3270, 3286>>>>,
    <<3274, <<3270, 3266>>>>, <<3275, <<3270, 3266, 3285>>>>, <<3402, <<3398, 3390>>>>,
    <<3403, <<3399, 3390>>>>, <<3404, <<3398, 3415>>>>, <<3546, <<3545, 3530>>>>,
    <<3548, <<3545, 3535>>>>, <<3549, <<3545, 3535, 3530>>>>, <<3550, <<3545, 3551>>>>,
    <<3907, <<3906, 4023>>>>, <<3917, <<3916, 4023>>>>, <<3922, <<3921, 4023>>>>,
    <<3927, <<3926, 4023>>>>, <<3932, <<3931, 4023>>>>, <<3945, <<3904, 4021>>>>,
    <<3955, <<3953, 3954>>>>, <<3957, <<3953, 3956>>>>, <<3958, <<4018, 3968>>>>,
    <<3960, <<4019, 3968>>>>, <<3969, <<3953, 3968>>>>, <<3987, <<3986, 4023>>>>,
    <<3997, <<3996, 4023>>>>, <<4002, <<4001, 4023>>>>, <<4007, <<4006, 4023>>>>,
    <<4012, <<4011, 4023>>>>, <<4025, <<3984, 4021>>>>, <<4134, <<4133, 4142>>>>,
    <<6918, <<6917, 6965>>>>, <<6920, <<6919, 6965>>>>, <<6922, <<6921, 6965>>>>,
    <<6924, <<6923, 6965>>>>, <<6926, <<6925, 6965>>>>, <<6930, <<6929, 6965>>>>,
    <<6971, <<6970, 6965>>>>, <<6973, <<6972, 6965>>>>, <<6976, <<6974, 6965>>>>,
    <<6977, <<6975, 6965>>>>, <<6979, <<6978, 6965>>>>, <<7680, <<65, 805>>>>,
    <<7681, <<97, 805>>>>, <<7682, <<66, 775>>>>, <<7683, <<98, 775>>>>, <<7684, <<66, 803>>>>,
    <<7685, <<98, 803>>>>, <<7686, <<66, 817>>>>, <<7687, <<98, 817>>>>,
    <<7688, <<67, 807, 769>>>>, <<7689, <<99, 807, 769>>>>, <<7690, <<68, 775>>>>,
    <<7691, <<100, 775>>>>, <<7692, <<68, 803>>>>, <<7693, <<100, 803>>>>, <<7694, <<68, 817>>>>,
    <<7695, <<100, 817>>>>, <<7696, <<68, 807>>>>, <<7697, <<100, 807>>>>, <<7698, <<68, 813>>>>,
    <<7699, <<100, 813>>>>, <<7700, <<69, 772, 768>>>>, <<7701, <<101, 772, 768>>>>,
    <<7702, <<69, 772, 769>>>>, <<7703, <<101, 772, 769>>>>, <<7704, <<69, 813>>>>,
    <<7705, <<101, 813>>>>, <<7706, <<69, 816>>>>, <<7707, <<101, 816>>>>,
    <<7708, <<69, 807, 774>>>>, <<7709, <<101, 807, 774>>>>, <<7710, <<70, 775>>>>,
    <<7711, <<102, 775>>>>, <<7712, <<71, 772>>>>, <<7713, <<103, 772>>>>, <<7714, <<72, 775>>>>,
    <<7715, <<104, 775>>>>, <<7716, <<72, 803>>>>, <<7717, <<104, 803>>>>, <<7718, <<72, 776>>>>,
    <<7719, <<104, 776>>>>, <<7720, <<72, 807>>>>, <<7721, <<104, 807>>>>, <<7722, <<72, 814>>>>,
    <<7723, <<104, 814>>>>, <<7724, <<73, 816>>>>, <<7725, <<105, 816>>>>,
    <<7726, <<73, 776, 769>>>>, <<7727, <<105, 776, 769>>>>, <<7728, <<75, 769>>>>,
    <<7729, <<107, 769>>>>, <<7730, <<75, 803>>>>, <<7731, <<107, 803>>>>, <<7732, <<75, 817>>>>,
    <<7733, <<107, 817>>>>, <<7734, <<76, 803>>>>, <<7735, <<108, 803>>>>,
    <<7736, <<76, 803, 772>>>>, <<7737, <<108, 803, 772>>>>, <<7738, <<76, 817>>>>,
    <<7739, <<108, 817>>>>, <<7740, <<76, 813>>>>, <<7741, <<108, 813>>>>, <<7742, <<77, 769>>>>,
    <<7743, <<109, 769>>>>, <<7744, <<77, 775>>>>, <<7745, <<109, 775>>>>, <<7746, <<77, 803>>>>,
    <<7747, <<109, 803>>>>, <<7748, <<78, 775>>>>, <<7749, <<110, 775>>>>, <<7750, <<78, 803>>>>,
    <<7751, <<110, 803>>>>, <<7752, <<78, 817>>>>, <<7753, <<110, 817>>>>, <<7754, <<78, 813>>>>,
    <<7755, <<110, 813>>>>, <<7756, <<79, 771, 769>>>>, <<7757, <<111, 771, 769>>>>,
    <<7758, <<79, 771, 776>>>>, <<7759, <<111, 771, 776>>>>, <<7760, <<79, 772, 768>>>>,
    <<7761, <<111, 772, 768>>>>, <<7762, <<79, 772, 769>>>>, <<7763, <<111, 772, 769>>>>,
    <<7764, <<80, 769>>>>, <<7765, <<112, 769>>>>, <<7766, <<80, 775>>>>, <<7767, <<112, 775>>>>,
    <<7768, <<82, 775>>>>, <<7769, <<114, 775>>>>, <<7770, <<82, 803>>>>, <<7771, <<114, 803>>>>,
    <<7772, <<82, 803, 772>>>>, <<7773, <<114, 803, 772>>>>, <<7774, <<82, 817>>>>,
    <<7775, <<114, 817>>>>, <<7776, <<83, 775>>>>, <<7777, <<115, 775>>>>, <<7778, <<83, 803>>>>,
    <<7779, <<115, 803>>>>, <<7780, <<83, 769, 775>>>>, <<7781, <<115, 769, 775>>>>,
    <<7782, <<83, 780, 775>>>>, <<7783, <<115, 780, 775>>>>, <<7784, <<83, 803, 775>>>>,
    <<7785, <<115, 803, 775>>>>, <<7786, <<84, 775>>>>, <<7787, <<116, 775>>>>,
    <<7788, <<84, 803>>>>, <<7789, <<116, 803>>>>, <<7790, <<84, 817>>>>, <<7791, <<116, 817>>>>,
    <<7792, <<84, 813>>>>, <<7793, <<116, 813>>>>, <<7794, <<85, 804>>>>, <<7795, <<117, 804>>>>,
    <<7796, <<85, 816>>>>, <<7797, <<117, 816>>>>, <<7798, <<85, 813>>>>, <<7799, <<117, 813>>>>,
    <<7800, <<85, 771, 769>>>>, <<7801, <<117, 771, 769>>>>, <<7802, <<85, 772, 776>>>>,
    <<7803, <<117, 772, 776>>>>, <<7804, <<86, 771>>>>, <<7805, <<118, 771>>>>,
    <<7806, <<86, 803>>>>, <<7807, <<118, 803>>>>, <<7808, <<87, 768>>>>, <<7809, <<119, 768>>>>,
    <<7810, <<87, 769>>>>, <<7811, <<119, 769>>>>, <<7812, <<87, 776>>>>, <<7813, <<119, 776>>>>,
    <<7814, <<87, 775>>>>, <<7815, <<119, 775>>>>, <<7816, <<87, 803>>>>, <<7817, <<119, 803>>>>,
    <<7818, <<88, 775>>>>, <<7819, <<120, 775>>>>, <<7820, <<88, 776>>>>, <<7821, <<120, 776>>>>,
    <<7822, <<89, 775>>>>, <<7823, <<121, 775>>>>, <<7824, <<90, 770>>>>, <<7825, <<122, 770>>>>,
    <<7826, <<90, 803>>>>, <<7827, <<122, 803>>>>, <<7828, <<90, 817>>>>, <<7829, <<122, 817>>>>,
    <<7830, <<104, 817>>>>, <<7831, <<116, 776>>>>, <<7832, <<119, 778>>>>,
    <<7833, <<121, 778>>>>, <<7835, <<383, 775>>>>, <<7840, <<65, 803>>>>, <<7841, <<97, 803>>>>,
    <<7842, <<65, 777>>>>, <<7843, <<97, 777>>>>, <<7844, <<65, 770, 769>>>>,
    <<7845, <<97, 770, 769>>>>, <<7846, <<65, 770, 768>>>>, <<7847, <<97, 770, 768>>>>,
    <<7848, <<65, 770, 777>>>>, <<7849, <<97, 770, 777>>>>, <<7850, <<65, 770, 771>>>>,
    <<7851, <<97, 770, 771>>>>, <<7852, <<65, 803, 770>>>>, <<7853, <<97, 803, 770>>>>,
    <<7854, <<65, 774, 769>>>>, <<7855, <<97, 774, 769>>>>, <<7856, <<65, 774, 768>>>>,
    <<7857, <<97, 774, 768>>>>, <<7858, <<65, 774, 777>>>>, <<7859, <<97, 774, 777>>>>,
    <<7860, <<65, 774, 771>>>>, <<7861, <<97, 774, 771>>>>, <<7862, <<65, 803, 774>>>>,
    <<7863, <<97, 803, 774>>>>, <<7864, <<69, 803>>>>, <<7865, <<101, 803>>>>,
    <<7866, <<69, 777>>>>, <<7867, <<101, 777>>>>, <<7868, <<69, 771>>>>, <<7869, <<101, 771>>>>,
    <<7870, <<69, 770, 769>>>>, <<7871, <<101, 770, 769>>>>, <<7872, <<69, 770, 768>>>>,
    <<7873, <<101, 770, 768>>>>, <<7874, <<69, 770, 777>>>>, <<7875, <<101, 770, 777>>>>,
    <<7876, <<69, 770, 771>>>>, <<7877, <<101, 770, 771>>>>, <<7878, <<69, 803, 770>>>>,
    <<7879, <<101, 803, 770>>>>, <<7880, <<73, 777>>>>, <<7881, <<105, 777>>>>,
    <<7882, <<73, 803>>>>, <<7883, <<105, 803>>>>, <<7884, <<79, 803>>>>, <<7885, <<111, 803>>>>,
    <<7886, <<79, 777>>>>, <<7887, <<111, 777>>>>, <<7888, <<79, 770, 769>>>>,
    <<7889, <<111, 770, 769>>>>, <<7890, <<79, 770, 768>>>>, <<7891, <<111, 770, 768>>>>,
    <<7892, <<79, 770, 777>>>>, <<7893, <<111, 770, 777>>>>, <<7894, <<79, 770, 771>>>>,
    <<7895, <<111, 770, 771>>>>, <<7896, <<79, 803, 770>>>>, <<7897, <<111, 803, 770>>>>,
    <<7898, <<79, 795, 769>>>>, <<7899, <<111, 795, 769>>>>, <<7900, <<79, 795, 768>>>>,
    <<7901, <<111, 795, 768>>>>, <<7902, <<79, 795, 777>>>>, <<7903, <<111, 795, 777>>>>,
    <<7904, <<79, 795, 771>>>>, <<7905, <<111, 795, 771>>>>, <<7906, <<79, 795, 803>>>>,
    <<7907, <<111, 795, 803>>>>, <<7908, <<85, 803>>>>, <<7909, <<117, 803>>>>,
    <<7910, <<85, 777>>>>, <<7911, <<117, 777>>>>, <<7912, <<85, 795, 769>>>>,
    <<7913, <<117, 795, 769>>>>, <<7914, <<85, 795, 768>>>>, <<7915, <<117, 795, 768>>>>,
    <<7916, <<85, 795, 777>>>>, <<7917, <<117, 795, 777>>>>, <<7918, <<85, 795, 771>>>>,
    <<7919, <<117, 795, 771>>>>, <<7920, <<85, 795, 803>>>>, <<7921, <<117, 795, 803>>>>,
    <<7922, <<89, 768>>>>, <<7923, <<121, 768>>>>, <<7924, <<89, 803>>>>, <<7925, <<121, 803>>>>,
    <<7926, <<89, 777>>>>, <<7927, <<121, 777>>>>, <<7928, <<89, 771>>>>, <<7929, <<121, 771>>>>,
    <<7936, <<945, 787>>>>, <<7937, <<945, 788>>>>, <<7938, <<945, 787, 768>>>>,
    <<7939, <<945, 788, 768>>>>, <<7940, <<945, 787, 769>>>>, <<7941, <<945, 788, 769>>>>,
    <<7942, <<945, 787, 834>>>>, <<7943, <<945, 788, 834>>>>, <<7944, <<913, 787>>>>,
    <<7945, <<913, 788>>>>, <<7946, <<913, 787, 768>>>>, <<7947, <<913, 788, 768>>>>,
    <<7948, <<913, 787, 769>>>>, <<7949, <<913, 788, 769>>>>, <<7950, <<913, 787, 834>>>>,
    <<7951, <<913, 788, 834>>>>, <<7952, <<949, 787>>>>, <<7953, <<949, 788>>>>,
    <<7954, <<949, 787, 768>>>>, <<7955, <<949, 788, 768>>>>, <<7956, <<949, 787, 769>>>>,
    <<7957, <<949, 788, 769>>>>, <<7960, <<917, 787>>>>, <<7961, <<917, 788>>>>,
    <<7962, <<917, 787, 768>>>>, <<7963, <<917, 788, 768>>>>, <<7964, <<917, 787, 769>>>>,
    <<7965, <<917, 788, 769>>>>, <<7968, <<951, 787>>>>, <<7969, <<951, 788>>>>,
    <<7970, <<951, 787, 768>>>>, <<7971, <<951, 788, 768>>>>, <<7972, <<951, 787, 769>>>>,
    <<7973, <<951, 788, 769>>>>, <<7974, <<951, 787, 834>>>>, <<7975, <<951, 788, 834>>>>,
    <<7976, <<919, 787>>>>, <<7977, <<919, 788>>>>, <<7978, <<919, 787, 768>>>>,
    <<7979, <<919, 788, 768>>>>, <<7980, <<919, 787, 769>>>>, <<7981, <<919, 788, 769>>>>,
    <<7982, <<919, 787, 834>>>>, <<7983, <<919, 788, 834>>>>, <<7984, <<953, 787>>>>,
    <<7985, <<953, 788>>>>, <<7986, <<953, 787, 768>>>>, <<7987, <<953, 788, 768>>>>,
    <<7988, <<953, 787, 769>>>>, <<7989, <<953, 788, 769>>>>, <<7990, <<953, 787, 834>>>>,
    <<7991, <<953, 788, 834>>>>, <<7992, <<921, 787>>>>, <<7993, <<921, 788>>>>,
    <<7994, <<921, 787, 768>>>>, <<7995, <<921, 788, 768>>>>, <<7996, <<921, 787, 769>>>>,
    <<7997, <<921, 788, 769>>>>, <<7998, <<921, 787, 834>>>>, <<7999, <<921, 788, 834>>>>,
    <<8000, <<959, 787>>>>, <<8001, <<959, 788>>>>, <<8002, <<959, 787, 768>>>>,
    <<8003, <<959, 788, 768>>>>, <<8004, <<959, 787, 769>>>>, <<8005, <<959, 788, 769>>>>,
    <<8008, <<927, 787>>>>, <<8009, <<927, 788>>>>, <<8010, <<927, 787, 768>>>>,
    <<8011, <<927, 788, 768>>>>, <<8012, <<927, 787, 769>>>>, <<8013, <<927, 788, 769>>>>,
    <<8016, <<965, 787>>>>, <<8017, <<965, 788>>>>, <<8018, <<965, 787, 768>>>>,
    <<8019, <<965, 788, 768>>>>, <<8020, <<965, 787, 769>>>>, <<8021, <<965, 788, 769>>>>,
    <<8022, <<965, 787, 834>>>>, <<8023, <<965, 788, 834>>>>, <<8025, <<933, 788>>>>,
    <<8027, <<933, 788, 768>>>>, <<8029, <<933, 788, 769>>>>, <<8031, <<933, 788, 834>>>>,
    <<8032, <<969, 787>>>>, <<8033, <<969, 788>>>>, <<8034, <<969, 787, 768>>>>,
    <<8035, <<969, 788, 768>>>>, <<8036, <<969, 787, 769>>>>, <<8037, <<969, 788, 769>>>>,
    <<8038, <<969, 787, 834>>>>, <<8039, <<969, 788, 834>>>>, <<8040, <<937, 787>>>>,
    <<8041, <<937, 788>>>>, <<8042, <<937, 787, 768>>>>, <<8043, <<937, 788, 768>>>>,
    <<8044, <<937, 787, 769>>>>, <<8045, <<937, 788, 769>>>>, <<8046, <<937, 787, 834>>>>,
    <<8047, <<937, 788, 834>>>>, <<8048, <<945, 768>>>>, <<8049, <<945, 769>>>>,
    <<8050, <<949, 768>>>>, <<8051, <<949, 769>>>>, <<8052, <<951, 768>>>>,
    <<8053, <<951, 769>>>>, <<8054, <<953, 768>>>>, <<8055, <<953, 769>>>>,
    <<8056, <<959, 768>>>>, <<8057, <<959, 769>>>>, <<8058, <<965, 768>>>>,
    <<8059, <<965, 769>>>>, <<8060, <<969, 768>>>>, <<8061, <<969, 769>>>>,
    <<8064, <<945, 787, 837>>>>, <<8065, <<945, 788, 837>>>>, <<8066, <<945, 787, 768, 837>>>>,
    <<8067, <<945, 788, 768, 837>>>>, <<8068, <<945, 787, 769, 837>>>>,
    <<8069, <<945, 788, 769, 837>>>>, <<8070, <<945, 787, 834, 837>>>>,
    <<8071, <<945, 788, 834, 837>>>>, <<8072, <<913, 787, 837>>>>, <<8073, <<913, 788, 837>>>>,
    <<8074, <<913, 787, 768, 837>>>>, <<8075, <<913, 788, 768, 837>>>>,
    <<8076, <<913, 787, 769, 837>>>>, <<8077, <<913, 788, 769, 837>>>>,
    <<8078, <<913, 787, 834, 837>>>>, <<8079, <<913, 788, 834, 837>>>>,
    <<8080, <<951, 787, 837>>>>, <<8081, <<951, 788, 837>>>>, <<8082, <<951, 787, 768, 837>>>>,
    <<8083, <<951, 788, 768, 837>>>>, <<8084, <<951, 787, 769, 837>>>>,
    <<8085, <<951, 788, 769, 837>>>>, <<8086, <<951, 787, 834, 837>>>>,
    <<8087, <<951, 788, 834, 837>>>>, <<8088, <<919, 787, 837>>>>, <<8089, <<919, 788, 837>>>>,
    <<8090, <<919, 787, 768, 837>>>>, <<8091, <<919, 788, 768, 837>>>>,
    <<8092, <<919, 787, 769, 837>>>>, <<8093, <<919, 788, 769, 837>>>>,
    <<8094, <<919, 787, 834, 837>>>>, <<8095, <<919, 788, 834, 837>>>>,
    <<8096, <<969, 787, 837>>>>, <<8097, <<969, 788, 837>>>>, <<8098, <<969, 787, 768, 837>>>>,
    <<8099, <<969, 788, 768, 837>>>>, <<8100, <<969, 787, 769, 837>>>>,
    <<8101, <<969, 788, 769, 837>>>>, <<8102, <<969, 787, 834, 837>>>>,
    <<8103, <<969, 788, 834, 837>>>>, <<8104, <<937, 787, 837>>>>, <<8105, <<937, 788, 837>>>>,
    <<8106, <<937, 787, 768, 837>>>>, <<8107, <<937, 788, 768, 837>>>>,
    <<8108, <<937, 787, 769, 837>>>>, <<8109, <<937, 788, 769, 837>>>>,
    <<8110, <<937, 787, 834, 837>>>>, <<8111, <<937, 788, 834, 837>>>>, <<8112, <<945, 774>>>>,
    <<8113, <<945, 772>>>>, <<8114, <<945, 768, 837>>>>, <<8115, <<945, 837>>>>,
    <<8116, <<945, 769, 837>>>>, <<8118, <<945, 834>>>>, <<8119, <<945, 834, 837>>>>,
    <<8120, <<913, 774>>>>, <<8121, <<913, 772>>>>, <<8122, <<913, 768>>>>,
    <<8123, <<913, 769>>>>, <<8124, <<913, 837>>>>, <<8126, <<953>>>>, <<8129, <<168, 834>>>>,
    <<8130, <<951, 768, 837>>>>, <<8131, <<951, 837>>>>, <<8132, <<951, 769, 837>>>>,
    <<8134, <<951, 834>>>>, <<8135, <<951, 834, 837>>>>, <<8136, <<917, 768>>>>,
    <<8137, <<917, 769>>>>, <<8138, <<919, 768>>>>, <<8139, <<919, 769>>>>,
    <<8140, <<919, 837>>>>, <<8141, <<8127, 768>>>>, <<8142, <<8127, 769>>>>,
    <<8143, <<8127, 834>>>>, <<8144, <<953, 774>>>>, <<8145, <<953, 772>>>>,
    <<8146, <<953, 776, 768>>>>, <<8147, <<953, 776, 769>>>>, <<8150, <<953, 834>>>>,
    <<8151, <<953, 776, 834>>>>, <<8152, <<921, 774>>>>, <<8153, <<921, 772>>>>,
    <<8154, <<921, 768>>>>, <<8155, <<921, 769>>>>, <<8157, <<8190, 768>>>>,
    <<8158, <<8190, 769>>>>, <<8159, <<8190, 834>>>>, <<8160, <<965, 774>>>>,
    <<8161, <<965, 772>>>>, <<8162, <<965, 776, 768>>>>, <<8163, <<965, 776, 769>>>>,
    <<8164, <<961, 787>>>>, <<8165, <<961, 788>>>>, <<8166, <<965, 834>>>>,
    <<8167, <<965, 776, 834>>>>, <<8168, <<933, 774>>>>, <<8169, <<933, 772>>>>,
    <<8170, <<933, 768>>>>, <<8171, <<933, 769>>>>, <<8172, <<929, 788>>>>,
    <<8173, <<168, 768>>>>, <<8174, <<168, 769>>>>, <<8175, <<96>>>>, <<8178, <<969, 768, 837>>>>,
    <<8179, <<969, 837>>>>, <<8180, <<969, 769, 837>>>>, <<8182, <<969, 834>>>>,
    <<8183, <<969, 834, 837>>>>, <<8184, <<927, 768>>>>, <<8185, <<927, 769>>>>,
    <<8186, <<937, 768>>>>, <<8187, <<937, 769>>>>, <<8188, <<937, 837>>>>, <<8189, <<180>>>>,
    <<8192, <<8194>>>>, <<8193, <<8195>>>>, <<8486, <<937>>>>, <<8490, <<75>>>>,
    <<8491, <<65, 778>>>>, <<8602, <<8592, 824>>>>, <<8603, <<8594, 824>>>>,
    <<8622, <<8596, 824>>>>, <<8653, <<8656, 824>>>>, <<8654, <<8660, 824>>>>,
    <<8655, <<8658, 824>>>>, <<8708, <<8707, 824>>>>, <<8713, <<8712, 824>>>>,
    <<8716, <<8715, 824>>>>, <<8740, <<8739, 824>>>>, <<8742, <<8741, 824>>>>,
    <<8769, <<8764, 824>>>>, <<8772, <<8771, 824>>>>, <<8775, <<8773, 824>>>>,
    <<8777, <<8776, 824>>>>, <<8800, <<61, 824>>>>, <<8802, <<8801, 824>>>>,
    <<8813, <<8781, 824>>>>, <<8814, <<60, 824>>>>, <<8815, <<62, 824>>>>,
    <<8816, <<8804, 824>>>>, <<8817, <<8805, 824>>>>, <<8820, <<8818, 824>>>>,
    <<8821, <<8819, 824>>>>, <<8824, <<8822, 824>>>>, <<8825, <<8823, 824>>>>,
    <<8832, <<8826, 824>>>>, <<8833, <<8827, 824>>>>, <<8836, <<8834, 824>>>>,
    <<8837, <<8835, 824>>>>, <<8840, <<8838, 824>>>>, <<8841, <<8839, 824>>>>,
    <<8876, <<8866, 824>>>>, <<8877, <<8872, 824>>>>, <<8878, <<8873, 824>>>>,
    <<8879, <<8875, 824>>>>, <<8928, <<8828, 824>>>>, <<8929, <<8829, 824>>>>,
    <<8930, <<8849, 824>>>>, <<8931, <<8850, 824>>>>, <<8938, <<8882, 824>>>>,
    <<8939, <<8883, 824>>>>, <<8940, <<8884, 824>>>>, <<8941, <<8885, 824>>>>,
    <<9001, <<12296>>>>, <<9002, <<12297>>>>, <<10972, <<10973, 824>>>>,
    <<12364, <<12363, 12441>>>>, <<12366, <<12365, 12441>>>>, <<12368, <<12367, 12441>>>>,
    <<12370, <<12369, 12441>>>>, <<12372, <<12371, 12441>>>>, <<12374, <<12373, 12441>>>>,
    <<12376, <<12375, 12441>>>>, <<12378, <<12377, 12441>>>>, <<12380, <<12379, 12441>>>>,
    <<12382, <<12381, 12441>>>>, <<12384, <<12383, 12441>>>>, <<12386, <<12385, 12441>>>>,
    <<12389, <<12388, 12441>>>>, <<12391, <<12390, 12441>>>>, <<12393, <<12392, 12441>>>>,
    <<12400, <<12399, 12441>>>>, <<12401, <<12399, 12442>>>>, <<12403, <<12402, 12441>>>>,
    <<12404, <<12402, 12442>>>>, <<12406, <<12405, 12441>>>>, <<12407, <<12405, 12442>>>>,
    <<12409, <<12408, 12441>>>>, <<12410, <<12408, 12442>>>>, <<12412, <<12411, 12441>>>>,
    <<12413, <<12411, 12442>>>>, <<12436, <<12358, 12441>>>>, <<12446, <<12445, 12441>>>>,
    <<12460, <<12459, 12441>>>>, <<12462, <<12461, 12441>>>>, <<12464, <<12463, 12441>>>>,
    <<12466, <<12465, 12441>>>>, <<12468, <<12467, 12441>>>>, <<12470, <<12469, 12441>>>>,
    <<12472, <<12471, 12441>>>>, <<12474, <<12473, 12441>>>>, <<12476, <<12475, 12441>>>>,
    <<12478, <<12477, 12441>>>>, <<12480, <<12479, 12441>>>>, <<12482, <<12481, 12441>>>>,
    <<12485, <<12484, 12441>>>>, <<12487, <<12486, 12441>>>>, <<12489, <<12488, 12441>>>>,
    <<12496, <<12495, 12441>>>>, <<12497, <<12495, 12442>>>>, <<12499, <<12498, 12441>>>>,
    <<12500, <<12498, 12442>>>>, <<12502, <<12501, 12441>>>>, <<12503, <<12501, 12442>>>>,
    <<12505, <<12504, 12441>>>>, <<12506, <<12504, 12442>>>>, <<12508, <<12507, 12441>>>>,
    <<12509, <<12507, 12442>>>>, <<12532, <<12454, 12441>>>>, <<12535, <<12527, 12441>>>>,
    <<12536, <<12528, 12441>>>>, <<12537, <<12529, 12441>>>>, <<12538, <<12530, 12441>>>>,
    <<12542, <<12541, 12441>>>>, <<63744, <<35912>>>>, <<63745, <<26356>>>>, <<63746, <<36554>>>>,
    <<63747, <<36040>>>>, <<63748, <<28369>>>>, <<63749, <<20018>>>>, <<63750, <<21477>>>>,
    <<63751, <<40860>>>>, <<63752, <<40860>>>>, <<63753, <<22865>>>>, <<63754, <<37329>>>>,
    <<63755, <<21895>>>>, <<63756, <<22856>>>>, <<63757, <<25078>>>>, <<63758, <<30313>>>>,
    <<63759, <<32645>>>>, <<63760, <<34367>>>>, <<63761, <<34746>>>>, <<63762, <<35064>>>>,
    <<63763, <<37007>>>>, <<63764, <<27138>>>>, <<63765, <<27931>>>>, <<63766, <<28889>>>>,
    <<63767, <<29662>>>>, <<63768, <<33853>>>>, <<63769, <<37226>>>>, <<63770, <<39409>>>>,
    <<63771, <<20098>>>>, <<63772, <<21365>>>>, <<63773, <<27396>>>>, <<63774, <<29211>>>>,
    <<63775, <<34349>>>>, <<63776, <<40478>>>>, <<63777, <<23888>>>>, <<63778, <<28651>>>>,
    <<63779, <<34253>>>>, <<63780, <<35172>>>>, <<63781, <<25289>>>>, <<63782, <<33240>>>>,
    <<63783, <<34847>>>>, <<63784, <<24266>>>>, <<63785, <<26391>>>>, <<63786, <<28010>>>>,
    <<63787, <<29436>>>>, <<63788, <<37070>>>>, <<63789, <<20358>>>>, <<63790, <<20919>>>>,
    <<63791, <<21214>>>>, <<63792, <<25796>>>>, <<63793, <<27347>>>>, <<63794, <<29200>>>>,
    <<63795, <<30439>>>>, <<63796, <<32769>>>>, <<63797, <<34310>>>>, <<63798, <<34396>>>>,
    <<63799, <<36335>>>>, <<63800, <<38706>>>>, <<63801, <<39791>>>>, <<63802, <<40442>>>>,
    <<63803, <<30860>>>>, <<63804, <<31103>>>>, <<63805, <<32160>>>>, <<63806, <<33737>>>>,
    <<63807, <<37636>>>>, <<63808, <<40575>>>>, <<63809, <<35542>>>>, <<63810, <<22751>>>>,
    <<63811, <<24324>>>>, <<63812, <<31840>>>>, <<63813, <<32894>>>>, <<63814, <<29282>>>>,
    <<63815, <<30922>>>>, <<63816, <<36034>>>>, <<63817, <<38647>>>>, <<63818, <<22744>>>>,
    <<63819, <<23650>>>>, <<63820, <<27155>>>>, <<63821, <<28122>>>>, <<63822, <<28431>>>>,
    <<63823, <<32047>>>>, <<63824, <<32311>>>>, <<63825, <<38475>>>>, <<63826, <<21202>>>>,
    <<63827, <<32907>>>>, <<63828, <<20956>>>>, <<63829, <<20940>>>>, <<63830, <<31260>>>>,
    <<63831, <<32190>>>>, <<63832, <<33777>>>>, <<63833, <<38517>>>>, <<63834, <<35712>>>>,
    <<63835, <<25295>>>>, <<63836, <<27138>>>>, <<63837, <<35582>>>>, <<63838, <<20025>>>>,
    <<63839, <<23527>>>>, <<63840, <<24594>>>>, <<63841, <<29575>>>>, <<63842, <<30064>>>>,
    <<63843, <<21271>>>>, <<63844, <<30971>>>>, <<63845, <<20415>>>>, <<63846, <<24489>>>>,
    <<63847, <<19981>>>>, <<63848, <<27852>>>>, <<63849, <<25976>>>>, <<63850, <<32034>>>>,
    <<63851, <<21443>>>>, <<63852, <<22622>>>>, <<63853, <<30465>>>>, <<63854, <<33865>>>>,
    <<63855, <<35498>>>>, <<63856, <<27578>>>>, <<63857, <<36784>>>>, <<63858, <<27784>>>>,
    <<63859, <<25342>>>>, <<63860, <<33509>>>>, <<63861, <<25504>>>>, <<63862, <<30053>>>>,
    <<63863, <<20142>>>>, <<63864, <<20841>>>>, <<63865, <<20937>>>>, <<63866, <<26753>>>>,
    <<63867, <<31975>>>>, <<63868, <<33391>>>>, <<63869, <<35538>>>>, <<63870, <<37327>>>>,
    <<63871, <<21237>>>>, <<63872, <<21570>>>>, <<63873, <<22899>>>>, <<63874, <<24300>>>>,
    <<63875, <<26053>>>>, <<63876, <<28670>>>>, <<63877, <<31018>>>>, <<63878, <<38317>>>>,
    <<63879, <<39530>>>>, <<63880, <<40599>>>>, <<63881, <<40654>>>>, <<63882, <<21147>>>>,
    <<63883, <<26310>>>>, <<63884, <<27511>>>>, <<63885, <<36706>>>>, <<63886, <<24180>>>>,
    <<63887, <<24976>>>>, <<63888, <<25088>>>>, <<63889, <<25754>>>>, <<63890, <<28451>>>>,
    <<63891, <<29001>>>>, <<63892, <<29833>>>>, <<63893, <<31178>>>>, <<63894, <<32244>>>>,
    <<63895, <<32879>>>>, <<63896, <<36646>>>>, <<63897, <<34030>>>>, <<63898, <<36899>>>>,
    <<63899, <<37706>>>>, <<63900, <<21015>>>>, <<63901, <<21155>>>>, <<63902, <<21693>>>>,
    <<63903, <<28872>>>>, <<63904, <<35010>>>>, <<63905, <<35498>>>>, <<63906, <<24265>>>>,
    <<63907, <<24565>>>>, <<63908, <<25467>>>>, <<63909, <<27566>>>>, <<63910, <<31806>>>>,
    <<63911, <<29557>>>>, <<63912, <<20196>>>>, <<63913, <<22265>>>>, <<63914, <<23527>>>>,
    <<63915, <<23994>>>>, <<63916, <<24604>>>>, <<63917, <<29618>>>>, <<63918, <<29801>>>>,
    <<63919, <<32666>>>>, <<63920, <<32838>>>>, <<63921, <<37428>>>>, <<63922, <<38646>>>>,
    <<63923, <<38728>>>>, <<63924, <<38936>>>>, <<63925, <<20363>>>>, <<63926, <<31150>>>>,
    <<63927, <<37300>>>>, <<63928, <<38584>>>>, <<63929, <<24801>>>>, <<63930, <<20102>>>>,
    <<63931, <<20698>>>>, <<63932, <<23534>>>>, <<63933, <<23615>>>>, <<63934, <<26009>>>>,
    <<63935, <<27138>>>>, <<63936, <<29134>>>>, <<63937, <<30274>>>>, <<63938, <<34044>>>>,
    <<63939, <<36988>>>>, <<63940, <<40845>>>>, <<63941, <<26248>>>>, <<63942, <<38446>>>>,
    <<63943, <<21129>>>>, <<63944, <<26491>>>>, <<63945, <<26611>>>>, <<63946, <<27969>>>>,
    <<63947, <<28316>>>>, <<63948, <<29705>>>>, <<63949, <<30041>>>>, <<63950, <<30827>>>>,
    <<63951, <<32016>>>>, <<63952, <<39006>>>>, <<63953, <<20845>>>>, <<63954, <<25134>>>>,
    <<63955, <<38520>>>>, <<63956, <<20523>>>>, <<63957, <<23833>>>>, <<63958, <<28138>>>>,
    <<63959, <<36650>>>>, <<63960, <<24459>>>>, <<63961, <<24900>>>>, <<63962, <<26647>>>>,
    <<63963, <<29575>>>>, <<63964, <<38534>>>>, <<63965, <<21033>>>>, <<63966, <<21519>>>>,
    <<63967, <<23653>>>>, <<63968, <<26131>>>>, <<63969, <<26446>>>>, <<63970, <<26792>>>>,
    <<63971, <<27877>>>>, <<63972, <<29702>>>>, <<63973, <<30178>>>>, <<63974, <<32633>>>>,
    <<63975, <<35023>>>>, <<63976, <<35041>>>>, <<63977, <<37324>>>>, <<63978, <<38626>>>>,
    <<63979, <<21311>>>>, <<63980, <<28346>>>>, <<63981, <<21533>>>>, <<63982, <<29136>>>>,
    <<63983, <<29848>>>>, <<63984, <<34298>>>>, <<63985, <<38563>>>>, <<63986, <<40023>>>>,
    <<63987, <<40607>>>>, <<63988, <<26519>>>>, <<63989, <<28107>>>>, <<63990, <<33256>>>>,
    <<63991, <<31435>>>>, <<63992, <<31520>>>>, <<63993, <<31890>>>>, <<63994, <<29376>>>>,
    <<63995, <<28825>>>>, <<63996, <<35672>>>>, <<63997, <<20160>>>>, <<63998, <<33590>>>>,
    <<63999, <<21050>>>>, <<64000, <<20999>>>>, <<64001, <<24230>>>>, <<64002, <<25299>>>>,
    <<64003, <<31958>>>>, <<64004, <<23429>>>>, <<64005, <<27934>>>>, <<64006, <<26292>>>>,
    <<64007, <<36667>>>>, <<64008, <<34892>>>>, <<64009, <<38477>>>>, <<64010, <<35211>>>>,
    <<64011, <<24275>>>>, <<64012, <<20800>>>>, <<64013, <<21952>>>>, <<64016, <<22618>>>>,
    <<64018, <<26228>>>>, <<64021, <<20958>>>>, <<64022, <<29482>>>>, <<64023, <<30410>>>>,
    <<64024, <<31036>>>>, <<64025, <<31070>>>>, <<64026, <<31077>>>>, <<64027, <<31119>>>>,
    <<64028, <<38742>>>>, <<64029, <<31934>>>>, <<64030, <<32701>>>>, <<64032, <<34322>>>>,
    <<64034, <<35576>>>>, <<64037, <<36920>>>>, <<64038, <<37117>>>>, <<64042, <<39151>>>>,
    <<64043, <<39164>>>>, <<64044, <<39208>>>>, <<64045, <<40372>>>>, <<64046, <<37086>>>>,
    <<64047, <<38583>>>>, <<64048, <<20398>>>>, <<64049, <<20711>>>>, <<64050, <<20813>>>>,
    <<64051, <<21193>>>>, <<64052, <<21220>>>>, <<64053, <<21329>>>>, <<64054, <<21917>>>>,
    <<64055, <<22022>>>>, <<64056, <<22120>>>>, <<64057, <<22592>>>>, <<64058, <<22696>>>>,
    <<64059, <<23652>>>>, <<64060, <<23662>>>>, <<64061, <<24724>>>>, <<64062, <<24936>>>>,
    <<64063, <<24974>>>>, <<64064, <<25074>>>>, <<64065, <<25935>>>>, <<64066, <<26082>>>>,
    <<64067, <<26257>>>>, <<64068, <<26757>>>>, <<64069, <<28023>>>>, <<64070, <<28186>>>>,
    <<64071, <<28450>>>>, <<64072, <<29038>>>>, <<64073, <<29227>>>>, <<64074, <<29730>>>>,
    <<64075, <<30865>>>>, <<64076, <<31038>>>>, <<64077, <<31049>>>>, <<64078, <<31048>>>>,
    <<64079, <<31056>>>>, <<64080, <<31062>>>>, <<64081, <<31069>>>>, <<64082, <<31117>>>>,
    <<64083, <<31118>>>>, <<64084, <<31296>>>>, <<64085, <<31361>>>>, <<64086, <<31680>>>>,
    <<64087, <<32244>>>>, <<64088, <<32265>>>>, <<64089, <<32321>>>>, <<64090, <<32626>>>>,
    <<64091, <<32773>>>>, <<64092, <<33261>>>>, <<64093, <<33401>>>>, <<64094, <<33401>>>>,
    <<64095, <<33879>>>>, <<64096, <<35088>>>>, <<64097, <<35222>>>>, <<64098, <<35585>>>>,
    <<64099, <<35641>>>>, <<64100, <<36051>>>>, <<64101, <<36104>>>>, <<64102, <<36790>>>>,
    <<64103, <<36920>>>>, <<64104, <<38627>>>>, <<64105, <<38911>>>>, <<64106, <<38971>>>>,
    <<64107, <<24693>>>>, <<64108, <<148206>>>>, <<64109, <<33304>>>>, <<64112, <<20006>>>>,
    <<64113, <<20917>>>>, <<64114, <<20840>>>>, <<64115, <<20352>>>>, <<64116, <<20805>>>>,
    <<64117, <<20864>>>>, <<64118, <<21191>>>>, <<64119, <<21242>>>>, <<64120, <<21917>>>>,
    <<64121, <<21845>>>>, <<64122, <<21913>>>>, <<64123, <<21986>>>>, <<64124, <<22618>>>>,
    <<64125, <<22707>>>>, <<64126, <<22852>>>>, <<64127, <<22868>>>>, <<64128, <<23138>>>>,
    <<64129, <<23336>>>>, <<64130, <<24274>>>>, <<64131, <<24281>>>>, <<64132, <<24425>>>>,
    <<64133, <<24493>>>>, <<64134, <<24792>>>>, <<64135, <<24910>>>>, <<64136, <<24840>>>>,
    <<64137, <<24974>>>>, <<64138, <<24928>>>>, <<64139, <<25074>>>>, <<64140, <<25140>>>>,
    <<64141, <<25540>>>>, <<64142, <<25628>>>>, <<64143, <<25682>>>>, <<64144, <<25942>>>>,
    <<64145, <<26228>>>>, <<64146, <<26391>>>>, <<64147, <<26395>>>>, <<64148, <<26454>>>>,
    <<64149, <<27513>>>>, <<64150, <<27578>>>>, <<64151, <<27969>>>>, <<64152, <<28379>>>>,
    <<64153, <<28363>>>>, <<64154, <<28450>>>>, <<64155, <<28702>>>>, <<64156, <<29038>>>>,
    <<64157, <<30631>>>>, <<64158, <<29237>>>>, <<64159, <<29359>>>>, <<64160, <<29482>>>>,
    <<64161, <<29809>>>>, <<64162, <<29958>>>>, <<64163, <<30011>>>>, <<64164, <<30237>>>>,
    <<64165, <<30239>>>>, <<64166, <<30410>>>>, <<64167, <<30427>>>>, <<64168, <<30452>>>>,
    <<64169, <<30538>>>>, <<64170, <<30528>>>>, <<64171, <<30924>>>>, <<64172, <<31409>>>>,
    <<64173, <<31680>>>>, <<64174, <<31867>>>>, <<64175, <<32091>>>>, <<64176, <<32244>>>>,
    <<64177, <<32574>>>>, <<64178, <<32773>>>>, <<64179, <<33618>>>>, <<64180, <<33775>>>>,
    <<64181, <<34681>>>>, <<64182, <<35137>>>>, <<64183, <<35206>>>>, <<64184, <<35222>>>>,
    <<64185, <<35519>>>>, <<64186, <<35576>>>>, <<64187, <<35531>>>>, <<64188, <<35585>>>>,
    <<64189, <<35582>>>>, <<64190, <<35565>>>>, <<64191, <<35641>>>>, <<64192, <<35722>>>>,
    <<64193, <<36104>>>>, <<64194, <<36664>>>>, <<64195, <<36978>>>>, <<64196, <<37273>>>>,
    <<64197, <<37494>>>>, <<64198, <<38524>>>>, <<64199, <<38627>>>>, <<64200, <<38742>>>>,
    <<64201, <<38875>>>>, <<64202, <<38911>>>>, <<64203, <<38923>>>>, <<64204, <<38971>>>>,
    <<64205, <<39698>>>>, <<64206, <<40860>>>>, <<64207, <<141386>>>>, <<64208, <<141380>>>>,
    <<64209, <<144341>>>>, <<64210, <<15261>>>>, <<64211, <<16408>>>>, <<64212, <<16441>>>>,
    <<64213, <<152137>>>>, <<64214, <<154832>>>>, <<64215, <<163539>>>>, <<64216, <<40771>>>>,
    <<64217, <<40846>>>>, <<64285, <<1497, 1460>>>>, <<64287, <<1522, 1463>>>>,
    <<64298, <<1513, 1473>>>>, <<64299, <<1513, 1474>>>>, <<64300, <<1513, 1468, 1473>>>>,
    <<64301, <<1513, 1468, 1474>>>>, <<64302, <<1488, 1463>>>>, <<64303, <<1488, 1464>>>>,
    <<64304, <<1488, 1468>>>>, <<64305, <<1489, 1468>>>>, <<64306, <<1490, 1468>>>>,
    <<64307, <<1491, 1468>>>>, <<64308, <<1492, 1468>>>>, <<64309, <<1493, 1468>>>>,
    <<64310, <<1494, 1468>>>>, <<64312, <<1496, 1468>>>>, <<64313, <<1497, 1468>>>>,
    <<64314, <<1498, 1468>>>>, <<64315, <<1499, 1468>>>>, <<64316, <<1500, 1468>>>>,
    <<64318, <<1502, 1468>>>>, <<64320, <<1504, 1468>>>>, <<64321, <<1505, 1468>>>>,
    <<64323, <<1507, 1468>>>>, <<64324, <<1508, 1468>>>>, <<64326, <<1510, 1468>>>>,
    <<64327, <<1511, 1468>>>>, <<64328, <<1512, 1468>>>>, <<64329, <<1513, 1468>>>>,
    <<64330, <<1514, 1468>>>>, <<64331, <<1493, 1465>>>>, <<64332, <<1489, 1471>>>>,
    <<64333, <<1499, 1471>>>>, <<64334, <<1508, 1471>>>>, <<69786, <<69785, 69818>>>>,
    <<69788, <<69787, 69818>>>>, <<69803, <<69797, 69818>>>>, <<69934, <<69937, 69927>>>>,
    <<69935, <<69938, 69927>>>>, <<70475, <<70471, 70462>>>>, <<70476, <<70471, 70487>>>>,
    <<70843, <<70841, 70842>>>>, <<70844, <<70841, 70832>>>>, <<70846, <<70841, 70845>>>>,
    <<71098, <<71096, 71087>>>>, <<71099, <<71097, 71087>>>>, <<71992, <<71989, 71984>>>>,
    <<119134, <<119127, 119141>>>>, <<119135, <<119128, 119141>>>>,
    <<119136, <<119128, 119141, 119150>>>>, <<119137, <<119128, 119141, 119151>>>>,
    <<119138, <<119128, 119141, 119152>>>>, <<119139, <<119128, 119141, 119153>>>>,
    <<119140, <<119128, 119141, 119154>>>>, <<119227, <<119225, 119141>>>>,
    <<119228, <<119226, 119141>>>>, <<119229, <<119225, 119141, 119150>>>>,
    <<119230, <<119226, 119141, 119150>>>>, <<119231, <<119225, 119141, 119151>>>>,
    <<119232, <<119226, 119141, 119151>>>>, <<194560, <<20029>>>>, <<194561, <<20024>>>>,
    <<194562, <<20033>>>>, <<194563, <<131362>>>>, <<194564, <<20320>>>>, <<194565, <<20398>>>>,
    <<194566, <<20411>>>>, <<194567, <<20482>>>>, <<194568, <<20602>>>>, <<194569, <<20633>>>>,
    <<194570, <<20711>>>>, <<194571, <<20687>>>>, <<194572, <<13470>>>>, <<194573, <<132666>>>>,
    <<194574, <<20813>>>>, <<194575, <<20820>>>>, <<194576, <<20836>>>>, <<194577, <<20855>>>>,
    <<194578, <<132380>>>>, <<194579, <<13497>>>>, <<194580, <<20839>>>>, <<194581, <<20877>>>>,
    <<194582, <<132427>>>>, <<194583, <<20887>>>>, <<194584, <<20900>>>>, <<194585, <<20172>>>>,
    <<194586, <<20908>>>>, <<194587, <<20917>>>>, <<194588, <<168415>>>>, <<194589, <<20981>>>>,
    <<194590, <<20995>>>>, <<194591, <<13535>>>>, <<194592, <<21051>>>>, <<194593, <<21062>>>>,
    <<194594, <<21106>>>>, <<194595, <<21111>>>>, <<194596, <<13589>>>>, <<194597, <<21191>>>>,
    <<194598, <<21193>>>>, <<194599, <<21220>>>>, <<194600, <<21242>>>>, <<194601, <<21253>>>>,
    <<194602, <<21254>>>>, <<194603, <<21271>>>>, <<194604, <<21321>>>>, <<194605, <<21329>>>>,
    <<194606, <<21338>>>>, <<194607, <<21363>>>>, <<194608, <<21373>>>>, <<194609, <<21375>>>>,
    <<194610, <<21375>>>>, <<194611, <<21375>>>>, <<194612, <<133676>>>>, <<194613, <<28784>>>>,
    <<194614, <<21450>>>>, <<194615, <<21471>>>>, <<194616, <<133987>>>>, <<194617, <<21483>>>>,
    <<194618, <<21489>>>>, <<194619, <<21510>>>>, <<194620, <<21662>>>>, <<194621, <<21560>>>>,
    <<194622, <<21576>>>>, <<194623, <<21608>>>>, <<194624, <<21666>>>>, <<194625, <<21750>>>>,
    <<194626, <<21776>>>>, <<194627, <<21843>>>>, <<194628, <<21859>>>>, <<194629, <<21892>>>>,
    <<194630, <<21892>>>>, <<194631, <<21913>>>>, <<194632, <<21931>>>>, <<194633, <<21939>>>>,
    <<194634, <<21954>>>>, <<194635, <<22294>>>>, <<194636, <<22022>>>>, <<194637, <<22295>>>>,
    <<194638, <<22097>>>>, <<194639, <<22132>>>>, <<194640, <<20999>>>>, <<194641, <<22766>>>>,
    <<194642, <<22478>>>>, <<194643, <<22516>>>>, <<194644, <<22541>>>>, <<194645, <<22411>>>>,
    <<194646, <<22578>>>>, <<194647, <<22577>>>>, <<194648, <<22700>>>>, <<194649, <<136420>>>>,
    <<194650, <<22770>>>>, <<194651, <<22775>>>>, <<194652, <<22790>>>>, <<194653, <<22810>>>>,
    <<194654, <<22818>>>>, <<194655, <<22882>>>>, <<194656, <<136872>>>>, <<194657, <<136938>>>>,
    <<194658, <<23020>>>>, <<194659, <<23067>>>>, <<194660, <<23079>>>>, <<194661, <<23000>>>>,
    <<194662, <<23142>>>>, <<194663, <<14062>>>>, <<194664, <<14076>>>>, <<194665, <<23304>>>>,
    <<194666, <<23358>>>>, <<194667, <<23358>>>>, <<194668, <<137672>>>>, <<194669, <<23491>>>>,
    <<194670, <<23512>>>>, <<194671, <<23527>>>>, <<194672, <<23539>>>>, <<194673, <<138008>>>>,
    <<194674, <<23551>>>>, <<194675, <<23558>>>>, <<194676, <<24403>>>>, <<194677, <<23586>>>>,
    <<194678, <<14209>>>>, <<194679, <<23648>>>>, <<194680, <<23662>>>>, <<194681, <<23744>>>>,
    <<194682, <<23693>>>>, <<194683, <<138724>>>>, <<194684, <<23875>>>>, <<194685, <<138726>>>>,
    <<194686, <<23918>>>>, <<194687, <<23915>>>>, <<194688, <<23932>>>>, <<194689, <<24033>>>>,
    <<194690, <<24034>>>>, <<194691, <<14383>>>>, <<194692, <<24061>>>>, <<194693, <<24104>>>>,
    <<194694, <<24125>>>>, <<194695, <<24169>>>>, <<194696, <<14434>>>>, <<194697, <<139651>>>>,
    <<194698, <<14460>>>>, <<194699, <<24240>>>>, <<194700, <<24243>>>>, <<194701, <<24246>>>>,
    <<194702, <<24266>>>>, <<194703, <<172946>>>>, <<194704, <<24318>>>>, <<194705, <<140081>>>>,
    <<194706, <<140081>>>>, <<194707, <<33281>>>>, <<194708, <<24354>>>>, <<194709, <<24354>>>>,
    <<194710, <<14535>>>>, <<194711, <<144056>>>>, <<194712, <<156122>>>>, <<194713, <<24418>>>>,
    <<194714, <<24427>>>>, <<194715, <<14563>>>>, <<194716, <<24474>>>>, <<194717, <<24525>>>>,
    <<194718, <<24535>>>>, <<194719, <<24569>>>>, <<194720, <<24705>>>>, <<194721, <<14650>>>>,
    <<194722, <<14620>>>>, <<194723, <<24724>>>>, <<194724, <<141012>>>>, <<194725, <<24775>>>>,
    <<194726, <<24904>>>>, <<194727, <<24908>>>>, <<194728, <<24910>>>>, <<194729, <<24908>>>>,
    <<194730, <<24954>>>>, <<194731, <<24974>>>>, <<194732, <<25010>>>>, <<194733, <<24996>>>>,
    <<194734, <<25007>>>>, <<194735, <<25054>>>>, <<194736, <<25074>>>>, <<194737, <<25078>>>>,
    <<194738, <<25104>>>>, <<194739, <<25115>>>>, <<194740, <<25181>>>>, <<194741, <<25265>>>>,
    <<194742, <<25300>>>>, <<194743, <<25424>>>>, <<194744, <<142092>>>>, <<194745, <<25405>>>>,
    <<194746, <<25340>>>>, <<194747, <<25448>>>>, <<194748, <<25475>>>>, <<194749, <<25572>>>>,
    <<194750, <<142321>>>>, <<194751, <<25634>>>>, <<194752, <<25541>>>>, <<194753, <<25513>>>>,
    <<194754, <<14894>>>>, <<194755, <<25705>>>>, <<194756, <<25726>>>>, <<194757, <<25757>>>>,
    <<194758, <<25719>>>>, <<194759, <<14956>>>>, <<194760, <<25935>>>>, <<194761, <<25964>>>>,
    <<194762, <<143370>>>>, <<194763, <<26083>>>>, <<194764, <<26360>>>>, <<194765, <<26185>>>>,
    <<194766, <<15129>>>>, <<194767, <<26257>>>>, <<194768, <<15112>>>>, <<194769, <<15076>>>>,
    <<194770, <<20882>>>>, <<194771, <<20885>>>>, <<194772, <<26368>>>>, <<194773, <<26268>>>>,
    <<194774, <<32941>>>>, <<194775, <<17369>>>>, <<194776, <<26391>>>>, <<194777, <<26395>>>>,
    <<194778, <<26401>>>>, <<194779, <<26462>>>>, <<194780, <<26451>>>>, <<194781, <<144323>>>>,
    <<194782, <<15177>>>>, <<194783, <<26618>>>>, <<194784, <<26501>>>>, <<194785, <<26706>>>>,
    <<194786, <<26757>>>>, <<194787, <<144493>>>>, <<194788, <<26766>>>>, <<194789, <<26655>>>>,
    <<194790, <<26900>>>>, <<194791, <<15261>>>>, <<194792, <<26946>>>>, <<194793, <<27043>>>>,
    <<194794, <<27114>>>>, <<194795, <<27304>>>>, <<194796, <<145059>>>>, <<194797, <<27355>>>>,
    <<194798, <<15384>>>>, <<194799, <<27425>>>>, <<194800, <<145575>>>>, <<194801, <<27476>>>>,
    <<194802, <<15438>>>>, <<194803, <<27506>>>>, <<194804, <<27551>>>>, <<194805, <<27578>>>>,
    <<194806, <<27579>>>>, <<194807, <<146061>>>>, <<194808, <<138507>>>>, <<194809, <<146170>>>>,
    <<194810, <<27726>>>>, <<194811, <<146620>>>>, <<194812, <<27839>>>>, <<194813, <<27853>>>>,
    <<194814, <<27751>>>>, <<194815, <<27926>>>>, <<194816, <<27966>>>>, <<194817, <<28023>>>>,
    <<194818, <<27969>>>>, <<194819, <<28009>>>>, <<194820, <<28024>>>>, <<194821, <<28037>>>>,
    <<194822, <<146718>>>>, <<194823, <<27956>>>>, <<194824, <<28207>>>>, <<194825, <<28270>>>>,
    <<194826, <<15667>>>>, <<194827, <<28363>>>>, <<194828, <<28359>>>>, <<194829, <<147153>>>>,
    <<194830, <<28153>>>>, <<194831, <<28526>>>>, <<194832, <<147294>>>>, <<194833, <<147342>>>>,
    <<194834, <<28614>>>>, <<194835, <<28729>>>>, <<194836, <<28702>>>>, <<194837, <<28699>>>>,
    <<194838, <<15766>>>>, <<194839, <<28746>>>>, <<194840, <<28797>>>>, <<194841, <<28791>>>>,
    <<194842, <<28845>>>>, <<194843, <<132389>>>>, <<194844, <<28997>>>>, <<194845, <<148067>>>>,
    <<194846, <<29084>>>>, <<194847, <<148395>>>>, <<194848, <<29224>>>>, <<194849, <<29237>>>>,
    <<194850, <<29264>>>>, <<194851, <<149000>>>>, <<194852, <<29312>>>>, <<194853, <<29333>>>>,
    <<194854, <<149301>>>>, <<194855, <<149524>>>>, <<194856, <<29562>>>>, <<194857, <<29579>>>>,
    <<194858, <<16044>>>>, <<194859, <<29605>>>>, <<194860, <<16056>>>>, <<194861, <<16056>>>>,
    <<194862, <<29767>>>>, <<194863, <<29788>>>>, <<194864, <<29809>>>>, <<194865, <<29829>>>>,
    <<194866, <<29898>>>>, <<194867, <<16155>>>>, <<194868, <<29988>>>>, <<194869, <<150582>>>>,
    <<194870, <<30014>>>>, <<194871, <<150674>>>>, <<194872, <<30064>>>>, <<194873, <<139679>>>>,
    <<194874, <<30224>>>>, <<194875, <<151457>>>>, <<194876, <<151480>>>>, <<194877, <<151620>>>>,
    <<194878, <<16380>>>>, <<194879, <<16392>>>>, <<194880, <<30452>>>>, <<194881, <<151795>>>>,
    <<194882, <<151794>>>>, <<194883, <<151833>>>>, <<194884, <<151859>>>>, <<194885, <<30494>>>>,
    <<194886, <<30495>>>>, <<194887, <<30495>>>>, <<194888, <<30538>>>>, <<194889, <<16441>>>>,
    <<194890, <<30603>>>>, <<194891, <<16454>>>>, <<194892, <<16534>>>>, <<194893, <<152605>>>>,
    <<194894, <<30798>>>>, <<194895, <<30860>>>>, <<194896, <<30924>>>>, <<194897, <<16611>>>>,
    <<194898, <<153126>>>>, <<194899, <<31062>>>>, <<194900, <<153242>>>>, <<194901, <<153285>>>>,
    <<194902, <<31119>>>>, <<194903, <<31211>>>>, <<194904, <<16687>>>>, <<194905, <<31296>>>>,
    <<194906, <<31306>>>>, <<194907, <<31311>>>>, <<194908, <<153980>>>>, <<194909, <<154279>>>>,
    <<194910, <<154279>>>>, <<194911, <<31470>>>>, <<194912, <<16898>>>>, <<194913, <<154539>>>>,
    <<194914, <<31686>>>>, <<194915, <<31689>>>>, <<194916, <<16935>>>>, <<194917, <<154752>>>>,
    <<194918, <<31954>>>>, <<194919, <<17056>>>>, <<194920, <<31976>>>>, <<194921, <<31971>>>>,
    <<194922, <<32000>>>>, <<194923, <<155526>>>>, <<194924, <<32099>>>>, <<194925, <<17153>>>>,
    <<194926, <<32199>>>>, <<194927, <<32258>>>>, <<194928, <<32325>>>>, <<194929, <<17204>>>>,
    <<194930, <<156200>>>>, <<194931, <<156231>>>>, <<194932, <<17241>>>>, <<194933, <<156377>>>>,
    <<194934, <<32634>>>>, <<194935, <<156478>>>>, <<194936, <<32661>>>>, <<194937, <<32762>>>>,
    <<194938, <<32773>>>>, <<194939, <<156890>>>>, <<194940, <<156963>>>>, <<194941, <<32864>>>>,
    <<194942, <<157096>>>>, <<194943, <<32880>>>>, <<194944, <<144223>>>>, <<194945, <<17365>>>>,
    <<194946, <<32946>>>>, <<194947, <<33027>>>>, <<194948, <<17419>>>>, <<194949, <<33086>>>>,
    <<194950, <<23221>>>>, <<194951, <<157607>>>>, <<194952, <<157621>>>>, <<194953, <<144275>>>>,
    <<194954, <<144284>>>>, <<194955, <<33281>>>>, <<194956, <<33284>>>>, <<194957, <<36766>>>>,
    <<194958, <<17515>>>>, <<194959, <<33425>>>>, <<194960, <<33419>>>>, <<194961, <<33437>>>>,
    <<194962, <<21171>>>>, <<194963, <<33457>>>>, <<194964, <<33459>>>>, <<194965, <<33469>>>>,
    <<194966, <<33510>>>>, <<194967, <<158524>>>>, <<194968, <<33509>>>>, <<194969, <<33565>>>>,
    <<194970, <<33635>>>>, <<194971, <<33709>>>>, <<194972, <<33571>>>>, <<194973, <<33725>>>>,
    <<194974, <<33767>>>>, <<194975, <<33879>>>>, <<194976, <<33619>>>>, <<194977, <<33738>>>>,
    <<194978, <<33740>>>>, <<194979, <<33756>>>>, <<194980, <<158774>>>>, <<194981, <<159083>>>>,
    <<194982, <<158933>>>>, <<194983, <<17707>>>>, <<194984, <<34033>>>>, <<194985, <<34035>>>>,
    <<194986, <<34070>>>>, <<194987, <<160714>>>>, <<194988, <<34148>>>>, <<194989, <<159532>>>>,
    <<194990, <<17757>>>>, <<194991, <<17761>>>>, <<194992, <<159665>>>>, <<194993, <<159954>>>>,
    <<194994, <<17771>>>>, <<194995, <<34384>>>>, <<194996, <<34396>>>>, <<194997, <<34407>>>>,
    <<194998, <<34409>>>>, <<194999, <<34473>>>>, <<195000, <<34440>>>>, <<195001, <<34574>>>>,
    <<195002, <<34530>>>>, <<195003, <<34681>>>>, <<195004, <<34600>>>>, <<195005, <<34667>>>>,
    <<195006, <<34694>>>>, <<195007, <<17879>>>>, <<195008, <<34785>>>>, <<195009, <<34817>>>>,
    <<195010, <<17913>>>>, <<195011, <<34912>>>>, <<195012, <<34915>>>>, <<195013, <<161383>>>>,
    <<195014, <<35031>>>>, <<195015, <<35038>>>>, <<195016, <<17973>>>>, <<195017, <<35066>>>>,
    <<195018, <<13499>>>>, <<195019, <<161966>>>>, <<195020, <<162150>>>>, <<195021, <<18110>>>>,
    <<195022, <<18119>>>>, <<195023, <<35488>>>>, <<195024, <<35565>>>>, <<195025, <<35722>>>>,
    <<195026, <<35925>>>>, <<195027, <<162984>>>>, <<195028, <<36011>>>>, <<195029, <<36033>>>>,
    <<195030, <<36123>>>>, <<195031, <<36215>>>>, <<195032, <<163631>>>>, <<195033, <<133124>>>>,
    <<195034, <<36299>>>>, <<195035, <<36284>>>>, <<195036, <<36336>>>>, <<195037, <<133342>>>>,
    <<195038, <<36564>>>>, <<195039, <<36664>>>>, <<195040, <<165330>>>>, <<195041, <<165357>>>>,
    <<195042, <<37012>>>>, <<195043, <<37105>>>>, <<195044, <<37137>>>>, <<195045, <<165678>>>>,
    <<195046, <<37147>>>>, <<195047, <<37432>>>>, <<195048, <<37591>>>>, <<195049, <<37592>>>>,
    <<195050, <<37500>>>>, <<195051, <<37881>>>>, <<195052, <<37909>>>>, <<195053, <<166906>>>>,
    <<195054, <<38283>>>>, <<195055, <<18837>>>>, <<195056, <<38327>>>>, <<195057, <<167287>>>>,
    <<195058, <<18918>>>>, <<195059, <<38595>>>>, <<195060, <<23986>>>>, <<195061, <<38691>>>>,
    <<195062, <<168261>>>>, <<195063, <<168474>>>>, <<195064, <<19054>>>>, <<195065, <<19062>>>>,
    <<195066, <<38880>>>>, <<195067, <<168970>>>>, <<195068, <<19122>>>>, <<195069, <<169110>>>>,
    <<195070, <<38923>>>>, <<195071, <<38923>>>>, <<195072, <<38953>>>>, <<195073, <<169398>>>>,
    <<195074, <<39138>>>>, <<195075, <<19251>>>>, <<195076, <<39209>>>>, <<195077, <<39335>>>>,
    <<195078, <<39362>>>>, <<195079, <<39422>>>>, <<195080, <<19406>>>>, <<195081, <<170800>>>>,
    <<195082, <<39698>>>>, <<195083, <<40000>>>>, <<195084, <<40189>>>>, <<195085, <<19662>>>>,
    <<195086, <<19693>>>>, <<195087, <<40295>>>>, <<195088, <<172238>>>>, <<195089, <<19704>>>>,
    <<195090, <<172293>>>>, <<195091, <<172558>>>>, <<195092, <<172689>>>>, <<195093, <<40635>>>>,
    <<195094, <<19798>>>>, <<195095, <<40697>>>>, <<195096, <<40702>>>>, <<195097, <<40709>>>>,
    <<195098, <<40719>>>>, <<195099, <<40726>>>>, <<195100, <<40763>>>>, <<195101, <<173568>>>>>>

\* the primary composites: <<first, second, composite>>, in order
CompositionTable == <<
    <<60, 824, 8814>>, <<61, 824, 8800>>, <<62, 824, 8815>>, <<65, 768, 192>>, <<65, 769, 193>>,
    <<65, 770, 194>>, <<65, 771, 195>>, <<65, 772, 256>>, <<65, 774, 258>>, <<65, 775, 550>>,
    <<65, 776, 196>>, <<65, 777, 7842>>, <<65, 778, 197>>, <<65, 780, 461>>, <<65, 783, 512>>,
    <<65, 785, 514>>, <<65, 803, 7840>>, <<65, 805, 7680>>, <<65, 808, 260>>, <<66, 775, 7682>>,
    <<66, 803, 7684>>, <<66, 817, 7686>>, <<67, 769, 262>>, <<67, 770, 264>>, <<67, 775, 266>>,
    <<67, 780, 268>>, <<67, 807, 199>>, <<68, 775, 7690>>, <<68, 780, 270>>, <<68, 803, 7692>>,
    <<68, 807, 7696>>, <<68, 813, 7698>>, <<68, 817, 7694>>, <<69, 768, 200>>, <<69, 769, 201>>,
    <<69, 770, 202>>, <<69, 771, 7868>>, <<69, 772, 274>>, <<69, 774, 276>>, <<69, 775, 278>>,
    <<69, 776, 203>>, <<69, 777, 7866>>, <<69, 780, 282>>, <<69, 783, 516>>, <<69, 785, 518>>,
    <<69, 803, 7864>>, <<69, 807, 552>>, <<69, 808, 280>>, <<69, 813, 7704>>, <<69, 816, 7706>>,
    <<70, 775, 7710>>, <<71, 769, 500>>, <<71, 770, 284>>, <<71, 772, 7712>>, <<71, 774, 286>>,
    <<71, 775, 288>>, <<71, 780, 486>>, <<71, 807, 290>>, <<72, 770, 292>>, <<72, 775, 7714>>,
    <<72, 776, 7718>>, <<72, 780, 542>>, <<72, 803, 7716>>, <<72, 807, 7720>>, <<72, 814, 7722>>,
    <<73, 768, 204>>, <<73, 769, 205>>, <<73, 770, 206>>, <<73, 771, 296>>, <<73, 772, 298>>,
    <<73, 774, 300>>, <<73, 775, 304>>, <<73, 776, 207>>, <<73, 777, 7880>>, <<73, 780, 463>>,
    <<73, 783, 520>>, <<73, 785, 522>>, <<73, 803, 7882>>, <<73, 808, 302>>, <<73, 816, 7724>>,
    <<74, 770, 308>>, <<75, 769, 7728>>, <<75, 780, 488>>, <<75, 803, 7730>>, <<75, 807, 310>>,
    <<75, 817, 7732>>, <<76, 769, 313>>, <<76, 780, 317>>, <<76, 803, 7734>>, <<76, 807, 315>>,
    <<76, 813, 7740>>, <<76, 817, 7738>>, <<77, 769, 7742>>, <<77, 775, 7744>>, <<77, 803, 7746>>,
    <<78, 768, 504>>, <<78, 769, 323>>, <<78, 771, 209>>, <<78, 775, 7748>>, <<78, 780, 327>>,
    <<78, 803, 7750>>, <<78, 807, 325>>, <<78, 813, 7754>>, <<78, 817, 7752>>, <<79, 768, 210>>,
    <<79, 769, 211>>, <<79, 770, 212>>, <<79, 771, 213>>, <<79, 772, 332>>, <<79, 774, 334>>,
    <<79, 775, 558>>, <<79, 776, 214>>, <<79, 777, 7886>>, <<79, 779, 336>>, <<79, 780, 465>>,
    <<79, 783, 524>>, <<79, 785, 526>>, <<79, 795, 416>>, <<79, 803, 7884>>, <<79, 808, 490>>,
    <<80, 769, 7764>>, <<80, 775, 7766>>, <<82, 769, 340>>, <<82, 775, 7768>>, <<82, 780, 344>>,
    <<82, 783, 528>>, <<82, 785, 530>>, <<82, 803, 7770>>, <<82, 807, 342>>, <<82, 817, 7774>>,
    <<83, 769, 346>>, <<83, 770, 348>>, <<83, 775, 7776>>, <<83, 780, 352>>, <<83, 803, 7778>>,
    <<83, 806, 536>>, <<83, 807, 350>>, <<84, 775, 7786>>, <<84, 780, 356>>, <<84, 803, 7788>>,
    <<84, 806, 538>>, <<84, 807, 354>>, <<84, 813, 7792>>, <<84, 817, 7790>>, <<85, 768, 217>>,
    <<85, 769, 218>>, <<85, 770, 219>>, <<85, 771, 360>>, <<85, 772, 362>>, <<85, 774, 364>>,
    <<85, 776, 220>>, <<85, 777, 7910>>, <<85, 778, 366>>, <<85, 779, 368>>, <<85, 780, 467>>,
    <<85, 783, 532>>, <<85, 785, 534>>, <<85, 795, 431>>, <<85, 803, 7908>>, <<85, 804, 7794>>,
    <<85, 808, 370>>, <<85, 813, 7798>>, <<85, 816, 7796>>, <<86, 771, 7804>>, <<86, 803, 7806>>,
    <<87, 768, 7808>>, <<87, 769, 7810>>, <<87, 770, 372>>, <<87, 775, 7814>>, <<87, 776, 7812>>,
    <<87, 803, 7816>>, <<88, 775, 7818>>, <<88, 776, 7820>>, <<89, 768, 7922>>, <<89, 769, 221>>,
    <<89, 770, 374>>, <<89, 771, 7928>>, <<89, 772, 562>>, <<89, 775, 7822>>, <<89, 776, 376>>,
    <<89, 777, 7926>>, <<89, 803, 7924>>, <<90, 769, 377>>, <<90, 770, 7824>>, <<90, 775, 379>>,
    <<90, 780, 381>>, <<90, 803, 7826>>, <<90, 817, 7828>>, <<97, 768, 224>>, <<97, 769, 225>>,
    <<97, 770, 226>>, <<97, 771, 227>>, <<97, 772, 257>>, <<97, 774, 259>>, <<97, 775, 551>>,
    <<97, 776, 228>>, <<97, 777, 7843>>, <<97, 778, 229>>, <<97, 780, 462>>, <<97, 783, 513>>,
    <<97, 785, 515>>, <<97, 803, 7841>>, <<97, 805, 7681>>, <<97, 808, 261>>, <<98, 775, 7683>>,
    <<98, 803, 7685>>, <<98, 817, 7687>>, <<99, 769, 263>>, <<99, 770, 265>>, <<99, 775, 267>>,
    <<99, 780, 269>>, <<99, 807, 231>>, <<100, 775, 7691>>, <<100, 780, 271>>, <<100, 803, 7693>>,
    <<100, 807, 7697>>, <<100, 813, 7699>>, <<100, 817, 7695>>, <<101, 768, 232>>,
    <<101, 769, 233>>, <<101, 770, 234>>, <<101, 771, 7869>>, <<101, 772, 275>>,
    <<101, 774, 277>>, <<101, 775, 279>>, <<101, 776, 235>>, <<101, 777, 7867>>,
    <<101, 780, 283>>, <<101, 783, 517>>, <<101, 785, 519>>, <<101, 803, 7865>>,
    <<101, 807, 553>>, <<101, 808, 281>>, <<101, 813, 7705>>, <<101, 816, 7707>>,
    <<102, 775, 7711>>, <<103, 769, 501>>, <<103, 770, 285>>, <<103, 772, 7713>>,
    <<103, 774, 287>>, <<103, 775, 289>>, <<103, 780, 487>>, <<103, 807, 291>>, <<104, 770, 293>>,
    <<104, 775, 7715>>, <<104, 776, 7719>>, <<104, 780, 543>>, <<104, 803, 7717>>,
    <<104, 807, 7721>>, <<104, 814, 7723>>, <<104, 817, 7830>>, <<105, 768, 236>>,
    <<105, 769, 237>>, <<105, 770, 238>>, <<105, 771, 297>>, <<105, 772, 299>>, <<105, 774, 301>>,
    <<105, 776, 239>>, <<105, 777, 7881>>, <<105, 780, 464>>, <<105, 783, 521>>,
    <<105, 785, 523>>, <<105, 803, 7883>>, <<105, 808, 303>>, <<105, 816, 7725>>,
    <<106, 770, 309>>, <<106, 780, 496>>, <<107, 769, 7729>>, <<107, 780, 489>>,
    <<107, 803, 7731>>, <<107, 807, 311>>, <<107, 817, 7733>>, <<108, 769, 314>>,
    <<108, 780, 318>>, <<108, 803, 7735>>, <<108, 807, 316>>, <<108, 813, 7741>>,
    <<108, 817, 7739>>, <<109, 769, 7743>>, <<109, 775, 7745>>, <<109, 803, 7747>>,
    <<110, 768, 505>>, <<110, 769, 324>>, <<110, 771, 241>>, <<110, 775, 7749>>,
    <<110, 780, 328>>, <<110, 803, 7751>>, <<110, 807, 326>>, <<110, 813, 7755>>,
    <<110, 817, 7753>>, <<111, 768, 242>>, <<111, 769, 243>>, <<111, 770, 244>>,
    <<111, 771, 245>>, <<111, 772, 333>>, <<111, 774, 335>>, <<111, 775, 559>>, <<111, 776, 246>>,
    <<111, 777, 7887>>, <<111, 779, 337>>, <<111, 780, 466>>, <<111, 783, 525>>,
    <<111, 785, 527>>, <<111, 795, 417>>, <<111, 803, 7885>>, <<111, 808, 491>>,
    <<112, 769, 7765>>, <<112, 775, 7767>>, <<114, 769, 341>>, <<114, 775, 7769>>,
    <<114, 780, 345>>, <<114, 783, 529>>, <<114, 785, 531>>, <<114, 803, 7771>>,
    <<114, 807, 343>>, <<114, 817, 7775>>, <<115, 769, 347>>, <<115, 770, 349>>,
    <<115, 775, 7777>>, <<115, 780, 353>>, <<115, 803, 7779>>, <<115, 806, 537>>,
    <<115, 807, 351>>, <<116, 775, 7787>>, <<116, 776, 7831>>, <<116, 780, 357>>,
    <<116, 803, 7789>>, <<116, 806, 539>>, <<116, 807, 355>>, <<116, 813, 7793>>,
    <<116, 817, 7791>>, <<117, 768, 249>>, <<117, 769, 250>>, <<117, 770, 251>>,
    <<117, 771, 361>>, <<117, 772, 363>>, <<117, 774, 365>>, <<117, 776, 252>>,
    <<117, 777, 7911>>, <<117, 778, 367>>, <<117, 779, 369>>, <<117, 780, 468>>,
    <<117, 783, 533>>, <<117, 785, 535>>, <<117, 795, 432>>, <<117, 803, 7909>>,
    <<117, 804, 7795>>, <<117, 808, 371>>, <<117, 813, 7799>>, <<117, 816, 7797>>,
    <<118, 771, 7805>>, <<118, 803, 7807>>, <<119, 768, 7809>>, <<119, 769, 7811>>,
    <<119, 770, 373>>, <<119, 775, 7815>>, <<119, 776, 7813>>, <<119, 778, 7832>>,
    <<119, 803, 7817>>, <<120, 775, 7819>>, <<120, 776, 7821>>, <<121, 768, 7923>>,
    <<121, 769, 253>>, <<121, 770, 375>>, <<121, 771, 7929>>, <<121, 772, 563>>,
    <<121, 775, 7823>>, <<121, 776, 255>>, <<121, 777, 7927>>, <<121, 778, 7833>>,
    <<121, 803, 7925>>, <<122, 769, 378>>, <<122, 770, 7825>>, <<122, 775, 380>>,
    <<122, 780, 382>>, <<122, 803, 7827>>, <<122, 817, 7829>>, <<168, 768, 8173>>,
    <<168, 769, 901>>, <<168, 834, 8129>>, <<194, 768, 7846>>, <<194, 769, 7844>>,
    <<194, 771, 7850>>, <<194, 777, 7848>>, <<196, 772, 478>>, <<197, 769, 506>>,
    <<198, 769, 508>>, <<198, 772, 482>>, <<199, 769, 7688>>, <<202, 768, 7872>>,
    <<202, 769, 7870>>, <<202, 771, 7876>>, <<202, 777, 7874>>, <<207, 769, 7726>>,
    <<212, 768, 7890>>, <<212, 769, 7888>>, <<212, 771, 7894>>, <<212, 777, 7892>>,
    <<213, 769, 7756>>, <<213, 772, 556>>, <<213, 776, 7758>>, <<214, 772, 554>>,
    <<216, 769, 510>>, <<220, 768, 475>>, <<220, 769, 471>>, <<220, 772, 469>>, <<220, 780, 473>>,
    <<226, 768, 7847>>, <<226, 769, 7845>>, <<226, 771, 7851>>, <<226, 777, 7849>>,
    <<228, 772, 479>>, <<229, 769, 507>>, <<230, 769, 509>>, <<230, 772, 483>>,
    <<231, 769, 7689>>, <<234, 768, 7873>>, <<234, 769, 7871>>, <<234, 771, 7877>>,
    <<234, 777, 7875>>, <<239, 769, 7727>>, <<244, 768, 7891>>, <<244, 769, 7889>>,
    <<244, 771, 7895>>, <<244, 777, 7893>>, <<245, 769, 7757>>, <<245, 772, 557>>,
    <<245, 776, 7759>>, <<246, 772, 555>>, <<248, 769, 511>>, <<252, 768, 476>>,
    <<252, 769, 472>>, <<252, 772, 470>>, <<252, 780, 474>>, <<258, 768, 7856>>,
    <<258, 769, 7854>>, <<258, 771, 7860>>, <<258, 777, 7858>>, <<259, 768, 7857>>,
    <<259, 769, 7855>>, <<259, 771, 7861>>, <<259, 777, 7859>>, <<274, 768, 7700>>,
    <<274, 769, 7702>>, <<275, 768, 7701>>, <<275, 769, 7703>>, <<332, 768, 7760>>,
    <<332, 769, 7762>>, <<333, 768, 7761>>, <<333, 769, 7763>>, <<346, 775, 7780>>,
    <<347, 775, 7781>>, <<352, 775, 7782>>, <<353, 775, 7783>>, <<360, 769, 7800>>,
    <<361, 769, 7801>>, <<362, 776, 7802>>, <<363, 776, 7803>>, <<383, 775, 7835>>,
    <<416, 768, 7900>>, <<416, 769, 7898>>, <<416, 771, 7904>>, <<416, 777, 7902>>,
    <<416, 803, 7906>>, <<417, 768, 7901>>, <<417, 769, 7899>>, <<417, 771, 7905>>,
    <<417, 777, 7903>>, <<417, 803, 7907>>, <<431, 768, 7914>>, <<431, 769, 7912>>,
    <<431, 771, 7918>>, <<431, 777, 7916>>, <<431, 803, 7920>>, <<432, 768, 7915>>,
    <<432, 769, 7913>>, <<432, 771, 7919>>, <<432, 777, 7917>>, <<432, 803, 7921>>,
    <<439, 780, 494>>, <<490, 772, 492>>, <<491, 772, 493>>, <<550, 772, 480>>, <<551, 772, 481>>,
    <<552, 774, 7708>>, <<553, 774, 7709>>, <<558, 772, 560>>, <<559, 772, 561>>,
    <<658, 780, 495>>, <<913, 768, 8122>>, <<913, 769, 902>>, <<913, 772, 8121>>,
    <<913, 774, 8120>>, <<913, 787, 7944>>, <<913, 788, 7945>>, <<913, 837, 8124>>,
    <<917, 768, 8136>>, <<917, 769, 904>>, <<917, 787, 7960>>, <<917, 788, 7961>>,
    <<919, 768, 8138>>, <<919, 769, 905>>, <<919, 787, 7976>>, <<919, 788, 7977>>,
    <<919, 837, 8140>>, <<921, 768, 8154>>, <<921, 769, 906>>, <<921, 772, 8153>>,
    <<921, 774, 8152>>, <<921, 776, 938>>, <<921, 787, 7992>>, <<921, 788, 7993>>,
    <<927, 768, 8184>>, <<927, 769, 908>>, <<927, 787, 8008>>, <<927, 788, 8009>>,
    <<929, 788, 8172>>, <<933, 768, 8170>>, <<933, 769, 910>>, <<933, 772, 8169>>,
    <<933, 774, 8168>>, <<933, 776, 939>>, <<933, 788, 8025>>, <<937, 768, 8186>>,
    <<937, 769, 911>>, <<937, 787, 8040>>, <<937, 788, 8041>>, <<937, 837, 8188>>,
    <<940, 837, 8116>>, <<942, 837, 8132>>, <<945, 768, 8048>>, <<945, 769, 940>>,
    <<945, 772, 8113>>, <<945, 774, 8112>>, <<945, 787, 7936>>, <<945, 788, 7937>>,
    <<945, 834, 8118>>, <<945, 837, 8115>>, <<949, 768, 8050>>, <<949, 769, 941>>,
    <<949, 787, 7952>>, <<949, 788, 7953>>, <<951, 768, 8052>>, <<951, 769, 942>>,
    <<951, 787, 7968>>, <<951, 788, 7969>>, <<951, 834, 8134>>, <<951, 837, 8131>>,
    <<953, 768, 8054>>, <<953, 769, 943>>, <<953, 772, 8145>>, <<953, 774, 8144>>,
    <<953, 776, 970>>, <<953, 787, 7984>>, <<953, 788, 7985>>, <<953, 834, 8150>>,
    <<959, 768, 8056>>, <<959, 769, 972>>, <<959, 787, 8000>>, <<959, 788, 8001>>,
    <<961, 787, 8164>>, <<961, 788, 8165>>, <<965, 768, 8058>>, <<965, 769, 973>>,
    <<965, 772, 8161>>, <<965, 774, 8160>>, <<965, 776, 971>>, <<965, 787, 8016>>,
    <<965, 788, 8017>>, <<965, 834, 8166>>, <<969, 768, 8060>>, <<969, 769, 974>>,
    <<969, 787, 8032>>, <<969, 788, 8033>>, <<969, 834, 8182>>, <<969, 837, 8179>>,
    <<970, 768, 8146>>, <<970, 769, 912>>, <<970, 834, 8151>>, <<971, 768, 8162>>,
    <<971, 769, 944>>, <<971, 834, 8167>>, <<974, 837, 8180>>, <<978, 769, 979>>,
    <<978, 776, 980>>, <<1030, 776, 1031>>, <<1040, 774, 1232>>, <<1040, 776, 1234>>,
    <<1043, 769, 1027>>, <<1045, 768, 1024>>, <<1045, 774, 1238>>, <<1045, 776, 1025>>,
    <<1046, 774, 1217>>, <<1046, 776, 1244>>, <<1047, 776, 1246>>, <<1048, 768, 1037>>,
    <<1048, 772, 1250>>, <<1048, 774, 1049>>, <<1048, 776, 1252>>, <<1050, 769, 1036>>,
    <<1054, 776, 1254>>, <<1059, 772, 1262>>, <<1059, 774, 1038>>, <<1059, 776, 1264>>,
    <<1059, 779, 1266>>, <<1063, 776, 1268>>, <<1067, 776, 1272>>, <<1069, 776, 1260>>,
    <<1072, 774, 1233>>, <<1072, 776, 1235>>, <<1075, 769, 1107>>, <<1077, 768, 1104>>,
    <<1077, 774, 1239>>, <<1077, 776, 1105>>, <<1078, 774, 1218>>, <<1078, 776, 1245>>,
    <<1079, 776, 1247>>, <<1080, 768, 1117>>, <<1080, 772, 1251>>, <<1080, 774, 1081>>,
    <<1080, 776, 1253>>, <<1082, 769, 1116>>, <<1086, 776, 1255>>, <<1091, 772, 1263>>,
    <<1091, 774, 1118>>, <<1091, 776, 1265>>, <<1091, 779, 1267>>, <<1095, 776, 1269>>,
    <<1099, 776, 1273>>, <<1101, 776, 1261>>, <<1110, 776, 1111>>, <<1140, 783, 1142>>,
    <<1141, 783, 1143>>, <<1240, 776, 1242>>, <<1241, 776, 1243>>, <<1256, 776, 1258>>,
    <<1257, 776, 1259>>, <<1575, 1619, 1570>>, <<1575, 1620, 1571>>, <<1575, 1621, 1573>>,
    <<1608, 1620, 1572>>, <<1610, 1620, 1574>>, <<1729, 1620, 1730>>, <<1746, 1620, 1747>>,
    <<1749, 1620, 1728>>, <<2344, 2364, 2345>>, <<2352, 2364, 2353>>, <<2355, 2364, 2356>>,
    <<2503, 2494, 2507>>, <<2503, 2519, 2508>>, <<2887, 2878, 2891>>, <<2887, 2902, 2888>>,
    <<2887, 2903, 2892>>, <<2962, 3031, 2964>>, <<3014, 3006, 3018>>, <<3014, 3031, 3020>>,
    <<3015, 3006, 3019>>, <<3142, 3158, 3144>>, <<3263, 3285, 3264>>, <<3270, 3266, 3274>>,
    <<3270, 3285, 3271>>, <<3270, 3286, 3272>>, <<3274, 3285, 3275>>, <<3398, 3390, 3402>>,
    <<3398, 3415, 3404>>, <<3399, 3390, 3403>>, <<3545, 3530, 3546>>, <<3545, 3535, 3548>>,
    <<3545, 3551, 3550>>, <<3548, 3530, 3549>>, <<4133, 4142, 4134>>, <<6917, 6965, 6918>>,
    <<6919, 6965, 6920>>, <<6921, 6965, 6922>>, <<6923, 6965, 6924>>, <<6925, 6965, 6926>>,
    <<6929, 6965, 6930>>, <<6970, 6965, 6971>>, <<6972, 6965, 6973>>, <<6974, 6965, 6976>>,
    <<6975, 6965, 6977>>, <<6978, 6965, 6979>>, <<7734, 772, 7736>>, <<7735, 772, 7737>>,
    <<7770, 772, 7772>>, <<7771, 772, 7773>>, <<7778, 775, 7784>>, <<7779, 775, 7785>>,
    <<7840, 770, 7852>>, <<7840, 774, 7862>>, <<7841, 770, 7853>>, <<7841, 774, 7863>>,
    <<7864, 770, 7878>>, <<7865, 770, 7879>>, <<7884, 770, 7896>>, <<7885, 770, 7897>>,
    <<7936, 768, 7938>>, <<7936, 769, 7940>>, <<7936, 834, 7942>>, <<7936, 837, 8064>>,
    <<7937, 768, 7939>>, <<7937, 769, 7941>>, <<7937, 834, 7943>>, <<7937, 837, 8065>>,
    <<7938, 837, 8066>>, <<7939, 837, 8067>>, <<7940, 837, 8068>>, <<7941, 837, 8069>>,
    <<7942, 837, 8070>>, <<7943, 837, 8071>>, <<7944, 768, 7946>>, <<7944, 769, 7948>>,
    <<7944, 834, 7950>>, <<7944, 837, 8072>>, <<7945, 768, 7947>>, <<7945, 769, 7949>>,
    <<7945, 834, 7951>>, <<7945, 837, 8073>>, <<7946, 837, 8074>>, <<7947, 837, 8075>>,
    <<7948, 837, 8076>>, <<7949, 837, 8077>>, <<7950, 837, 8078>>, <<7951, 837, 8079>>,
    <<7952, 768, 7954>>, <<7952, 769, 7956>>, <<7953, 768, 7955>>, <<7953, 769, 7957>>,
    <<7960, 768, 7962>>, <<7960, 769, 7964>>, <<7961, 768, 7963>>, <<7961, 769, 7965>>,
    <<7968, 768, 7970>>, <<7968, 769, 7972>>, <<7968, 834, 7974>>, <<7968, 837, 8080>>,
    <<7969, 768, 7971>>, <<7969, 769, 7973>>, <<7969, 834, 7975>>, <<7969, 837, 8081>>,
    <<7970, 837, 8082>>, <<7971, 837, 8083>>, <<7972, 837, 8084>>, <<7973, 837, 8085>>,
    <<7974, 837, 8086>>, <<7975, 837, 8087>>, <<7976, 768, 7978>>, <<7976, 769, 7980>>,
    <<7976, 834, 7982>>, <<7976, 837, 8088>>, <<7977, 768, 7979>>, <<7977, 769, 7981>>,
    <<7977, 834, 7983>>, <<7977, 837, 8089>>, <<7978, 837, 8090>>, <<7979, 837, 8091>>,
    <<7980, 837, 8092>>, <<7981, 837, 8093>>, <<7982, 837, 8094>>, <<7983, 837, 8095>>,
    <<7984, 768, 7986>>, <<7984, 769, 7988>>, <<7984, 834, 7990>>, <<7985, 768, 7987>>,
    <<7985, 769, 7989>>, <<7985, 834, 7991>>, <<7992, 768, 7994>>, <<7992, 769, 7996>>,
    <<7992, 834, 7998>>, <<7993, 768, 7995>>, <<7993, 769, 7997>>, <<7993, 834, 7999>>,
    <<8000, 768, 8002>>, <<8000, 769, 8004>>, <<8001, 768, 8003>>, <<8001, 769, 8005>>,
    <<8008, 768, 8010>>, <<8008, 769, 8012>>, <<8009, 768, 8011>>, <<8009, 769, 8013>>,
    <<8016, 768, 8018>>, <<8016, 769, 8020>>, <<8016, 834, 8022>>, <<8017, 768, 8019>>,
    <<8017, 769, 8021>>, <<8017, 834, 8023>>, <<8025, 768, 8027>>, <<8025, 769, 8029>>,
    <<8025, 834, 8031>>, <<8032, 768, 8034>>, <<8032, 769, 8036>>, <<8032, 834, 8038>>,
    <<8032, 837, 8096>>, <<8033, 768, 8035>>, <<8033, 769, 8037>>, <<8033, 834, 8039>>,
    <<8033, 837, 8097>>, <<8034, 837, 8098>>, <<8035, 837, 8099>>, <<8036, 837, 8100>>,
    <<8037, 837, 8101>>, <<8038, 837, 8102>>, <<8039, 837, 8103>>, <<8040, 768, 8042>>,
    <<8040, 769, 8044>>, <<8040, 834, 8046>>, <<8040, 837, 8104>>, <<8041, 768, 8043>>,
    <<8041, 769, 8045>>, <<8041, 834, 8047>>, <<8041, 837, 8105>>, <<8042, 837, 8106>>,
    <<8043, 837, 8107>>, <<8044, 837, 8108>>, <<8045, 837, 8109>>, <<8046, 837, 8110>>,
    <<8047, 837, 8111>>, <<8048, 837, 8114>>, <<8052, 837, 8130>>, <<8060, 837, 8178>>,
    <<8118, 837, 8119>>, <<8127, 768, 8141>>, <<8127, 769, 8142>>, <<8127, 834, 8143>>,
    <<8134, 837, 8135>>, <<8182, 837, 8183>>, <<8190, 768, 8157>>, <<8190, 769, 8158>>,
    <<8190, 834, 8159>>, <<8592, 824, 8602>>, <<8594, 824, 8603>>, <<8596, 824, 8622>>,
    <<8656, 824, 8653>>, <<8658, 824, 8655>>, <<8660, 824, 8654>>, <<8707, 824, 8708>>,
    <<8712, 824, 8713>>, <<8715, 824, 8716>>, <<8739, 824, 8740>>, <<8741, 824, 8742>>,
    <<8764, 824, 8769>>, <<8771, 824, 8772>>, <<8773, 824, 8775>>, <<8776, 824, 8777>>,
    <<8781, 824, 8813>>, <<8801, 824, 8802>>, <<8804, 824, 8816>>, <<8805, 824, 8817>>,
    <<8818, 824, 8820>>, <<8819, 824, 8821>>, <<8822, 824, 8824>>, <<8823, 824, 8825>>,
    <<8826, 824, 8832>>, <<8827, 824, 8833>>, <<8828, 824, 8928>>, <<8829, 824, 8929>>,
    <<8834, 824, 8836>>, <<8835, 824, 8837>>, <<8838, 824, 8840>>, <<8839, 824, 8841>>,
    <<8849, 824, 8930>>, <<8850, 824, 8931>>, <<8866, 824, 8876>>, <<8872, 824, 8877>>,
    <<8873, 824, 8878>>, <<8875, 824, 8879>>, <<8882, 824, 8938>>, <<8883, 824, 8939>>,
    <<8884, 824, 8940>>, <<8885, 824, 8941>>, <<12358, 12441, 12436>>, <<12363, 12441, 12364>>,
    <<12365, 12441, 12366>>, <<12367, 12441, 12368>>, <<12369, 12441, 12370>>,
    <<12371, 12441, 12372>>, <<12373, 12441, 12374>>, <<12375, 12441, 12376>>,
    <<12377, 12441, 12378>>, <<12379, 12441, 12380>>, <<12381, 12441, 12382>>,
    <<12383, 12441, 12384>>, <<12385, 12441, 12386>>, <<12388, 12441, 12389>>,
    <<12390, 12441, 12391>>, <<12392, 12441, 12393>>, <<12399, 12441, 12400>>,
    <<12399, 12442, 12401>>, <<12402, 12441, 12403>>, <<12402, 12442, 12404>>,
    <<12405, 12441, 12406>>, <<12405, 12442, 12407>>, <<12408, 12441, 12409>>,
    <<12408, 12442, 12410>>, <<12411, 12441, 12412>>, <<12411, 12442, 12413>>,
    <<12445, 12441, 12446>>, <<12454, 12441, 12532>>, <<12459, 12441, 12460>>,
    <<12461, 12441, 12462>>, <<12463, 12441, 12464>>, <<12465, 12441, 12466>>,
    <<12467, 12441, 12468>>, <<12469, 12441, 12470>>, <<12471, 12441, 12472>>,
    <<12473, 12441, 12474>>, <<12475, 12441, 12476>>, <<12477, 12441, 12478>>,
    <<12479, 12441, 12480>>, <<12481, 12441, 12482>>, <<12484, 12441, 12485>>,
    <<12486, 12441, 12487>>, <<12488, 12441, 12489>>, <<12495, 12441, 12496>>,
    <<12495, 12442, 12497>>, <<12498, 12441, 12499>>, <<12498, 12442, 12500>>,
    <<12501, 12441, 12502>>, <<12501, 12442, 12503>>, <<12504, 12441, 12505>>,
    <<12504, 12442, 12506>>, <<12507, 12441, 12508>>, <<12507, 12442, 12509>>,
    <<12527, 12441, 12535>>, <<12528, 12441, 12536>>, <<12529, 12441, 12537>>,
    <<12530, 12441, 12538>>, <<12541, 12441, 12542>>, <<69785, 69818, 69786>>,
    <<69787, 69818, 69788>>, <<69797, 69818, 69803>>, <<69937, 69927, 69934>>,
    <<69938, 69927, 69935>>, <<70471, 70462, 70475>>, <<70471, 70487, 70476>>,
    <<70841, 70832, 70844>>, <<70841, 70842, 70843>>, <<70841, 70845, 70846>>,
    <<71096, 71087, 71098>>, <<71097, 71087, 71099>>, <<71989, 71984, 71992>>>>

\* the index of the last row of table, between rows lo and hi, that begins
\* at or before code point c
RECURSIVE RangeIndex(_, _, _, _)
RangeIndex(table, c, lo, hi) ==
    IF lo = hi THEN lo
    ELSE IF table[(lo + hi + 1) \div 2][1] <= c
    THEN RangeIndex(table, c, (lo + hi + 1) \div 2, hi)
    ELSE RangeIndex(table, c, lo, ((lo + hi + 1) \div 2) - 1)
Row(table, c) == table[RangeIndex(table, c, 1, Len(table))]

\* the rows of a table for the code points of s
Rows(table, s) == SubSeq([j \in 1..Len(s) |-> Row(table, s[j])], 1, Len(s))
\* the values of the property of a table along the code points of s
PropertyOf(table, s) == SubSeq([j \in 1..Len(s) |-> Row(table, s[j])[2]], 1, Len(s))

(* NFC: canonical decomposition, canonical ordering, canonical composition. *)

\* Hangul syllables are decomposed and composed by arithmetic
Hangul ==
    [SBase |-> 44032, LBase |-> 4352, VBase |-> 4449, TBase |-> 4519,
     LCount |-> 19, VCount |-> 21, TCount |-> 28, NCount |-> 21 * 28, SCount |-> 19 * 21 * 28]

\* the full decomposition of code point c, where row is the row of the
\* table at or before c
Decomposition(c, row) ==
    IF c \in Hangul.SBase..(Hangul.SBase + Hangul.SCount - 1)
    THEN <<Hangul.LBase + ((c - Hangul.SBase) \div Hangul.NCount),
           Hangul.VBase + (((c - Hangul.SBase) % Hangul.NCount) \div Hangul.TCount)>>
         \o (IF (c - Hangul.SBase) % Hangul.TCount = 0 THEN <<>>
             ELSE <<Hangul.TBase + ((c - Hangul.SBase) % Hangul.TCount)>>)
    ELSE IF row[1] = c THEN row[2] ELSE <<c>>

\* the canonical ordering of d, whose combining classes are class: in every
\* run of characters whose class is not 0, the characters are put in the
\* order of their classes, those of one class staying in their order
CanonicalOrder(d, class) ==
    LET runStart(j) == LastIn(class, j, {0}) + 1
        runEnd(j) == FirstIn(class, j, {0}) - 1
        place(j) == runStart(j) + Cardinality({k \in runStart(j)..runEnd(j) :
                        class[k] < class[j] \/ (class[k] = class[j] /\ k < j)})
    IN  SubSeq([q \in 1..Len(d) |->
                    IF class[q] = 0 THEN d[q]
                    ELSE d[CHOOSE j \in runStart(q)..runEnd(q) : place(j) = q]],
               1, Len(d))

\* what is made of the full decompositions d of the code points of a string
Decomposed(d) == CanonicalOrder(d, PropertyOf(CombiningClassTable, d))
\* the canonical decomposition of s
NFD(s) ==
    Decomposed(Flatten([j \in 1..Len(s) |-> Decomposition(s[j], Row(DecompositionTable, s[j]))],
                       1, Len(s)))

\* the index of the last row of the primary composites, between rows lo and
\* hi, that is at or before the pair <<a, b>>
RECURSIVE PairIndex(_, _, _, _, _)
PairIndex(table, a, b, lo, hi) ==
    IF lo = hi THEN lo
    ELSE IF table[(lo + hi + 1) \div 2][1] < a
            \/ (table[(lo + hi + 1) \div 2][1] = a /\ table[(lo + hi + 1) \div 2][2] <= b)
    THEN PairIndex(table, a, b, (lo + hi + 1) \div 2, hi)
    ELSE PairIndex(table, a, b, lo, ((lo + hi + 1) \div 2) - 1)

\* the primary composite of a and b, where row is the row of the table at or
\* before the pair: <<>> if there is none
ComposePair(a, b, row) ==
    IF /\ a \in Hangul.LBase..(Hangul.LBase + Hangul.LCount - 1)
       /\ b \in Hangul.VBase..(Hangul.VBase + Hangul.VCount - 1)
    THEN <<Hangul.SBase
            + ((((a - Hangul.LBase) * Hangul.VCount) + (b - Hangul.VBase)) * Hangul.TCount)>>
    ELSE IF /\ a \in Hangul.SBase..(Hangul.SBase + Hangul.SCount - 1)
            /\ (a - Hangul.SBase) % Hangul.TCount = 0
            /\ b \in (Hangul.TBase + 1)..(Hangul.TBase + Hangul.TCount - 1)
    THEN <<a + (b - Hangul.TBase)>>
    ELSE IF row[1] = a /\ row[2] = b THEN <<row[3]>> ELSE <<>>

\* a step of canonical composition: output is what is composed so far,
\* starter the index in it of the last starter, lastClass the combining
\* class of the last character read.  Character ch of class chClass is
\* read, composite being what it makes with the last starter.
Compose(st, ch, chClass, composite) ==
    IF composite # <<>> /\ (st.lastClass < chClass \/ st.lastClass = 0)
    THEN [st EXCEPT !.p = @ + 1, !.output[st.starter] = composite[1]]
    ELSE [st EXCEPT !.p = @ + 1, !.output = Append(@, ch),
                    !.starter = IF chClass = 0 THEN Len(st.output) + 1 ELSE @,
                    !.lastClass = chClass]
ComposeStep(st) ==
    Compose(st, st.input[st.p], st.class[st.p],
            ComposePair(st.output[st.starter], st.input[st.p],
                        CompositionTable[PairIndex(CompositionTable, st.output[st.starter],
                                                   st.input[st.p], 1, Len(CompositionTable))]))
\* canonical composition of d, whose combining classes are class
Composed(d, class) ==
    IF d = <<>> THEN <<>>
    ELSE Run(ComposeStep,
             [p |-> 2, input |-> d, class |-> class, output |-> <<d[1]>>, starter |-> 1,
              lastClass |-> IF class[1] = 0 THEN 0 ELSE 256],
             2, Len(d)).output
Recomposed(d) == Composed(d, PropertyOf(CombiningClassTable, d))
NFC(s) == Recomposed(NFD(s))

(* Punycode.                                                                *)

\* the parameters of RFC 3492, and the largest integer of its arithmetic
Punycode ==
    [base |-> 36, tmin |-> 1, tmax |-> 26, skew |-> 38, damp |-> 700,
     initialBias |-> 72, initialN |-> 128, maxint |-> 2147483647]

\* bias adaptation: the loop, and its start
RECURSIVE AdaptLoop(_, _)
AdaptLoop(delta, k) ==
    IF delta > ((Punycode.base - Punycode.tmin) * Punycode.tmax) \div 2
    THEN AdaptLoop(delta \div (Punycode.base - Punycode.tmin), k + Punycode.base)
    ELSE k + (((Punycode.base - Punycode.tmin + 1) * delta) \div (delta + Punycode.skew))
Adapt(delta, numPoints, firstTime) ==
    AdaptLoop((IF firstTime THEN delta \div Punycode.damp ELSE delta \div 2)
                + ((IF firstTime THEN delta \div Punycode.damp ELSE delta \div 2)
                        \div numPoints), 0)

Threshold(k, bias) ==
    IF k <= bias THEN Punycode.tmin
    ELSE IF k >= bias + Punycode.tmax THEN Punycode.tmax ELSE k - bias

\* the value of a digit, a to z, A to Z or 0 to 9, and -1 for what is none
DigitValue(c) ==
    IF c \in 97..122 THEN c - 97
    ELSE IF c \in 65..90 THEN c - 65
    ELSE IF c \in DigitChars THEN c - 48 + 26
    ELSE -1

\* Decoding: what is before the last hyphen of input is copied.  Then a step
\* reads one digit: i is the integer read so far, oldi what it was before
\* this integer, w the weight and k the place of the digit; a digit below
\* the threshold t ends the integer, and then n moves on and is inserted in
\* the output.
PunycodeStop(st) == [st EXCEPT !.failed = TRUE, !.p = Len(st.input) + 1]
\* the integer i is complete, with the output at length len - 1; a surrogate
\* or a number beyond U+10FFFF is no code point that the mapping allows, and
\* the decoding stops there
PunycodeInsert(st, i, len) ==
    IF (i \div len) > Punycode.maxint - st.n THEN PunycodeStop(st)
    ELSE IF st.n + (i \div len) > 1114111 \/ st.n + (i \div len) \in 55296..57343
    THEN PunycodeStop(st)
    ELSE [st EXCEPT !.p = @ + 1, !.n = @ + (i \div len), !.i = (i % len) + 1,
                    !.oldi = (i % len) + 1, !.w = 1, !.k = Punycode.base,
                    !.bias = Adapt(i - st.oldi, len, st.oldi = 0),
                    !.output = SubSeq(@, 1, i % len) \o <<st.n + (i \div len)>>
                                    \o SubSeq(@, (i % len) + 1, len - 1)]
PunycodeDigit(st, digit, t) ==
    IF digit < 0 \/ digit > (Punycode.maxint - st.i) \div st.w THEN PunycodeStop(st)
    ELSE IF digit < t THEN PunycodeInsert(st, st.i + (digit * st.w), Len(st.output) + 1)
    ELSE IF st.w > Punycode.maxint \div (Punycode.base - t) THEN PunycodeStop(st)
    ELSE [st EXCEPT !.p = @ + 1, !.i = @ + (digit * st.w), !.w = @ * (Punycode.base - t),
                    !.k = @ + Punycode.base]
PunycodeDecodeStep(st) ==
    PunycodeDigit(st, DigitValue(st.input[st.p]), Threshold(st.k, st.bias))
\* what the decoder ends in: an integer that the input leaves unfinished is
\* a failure
PunycodeDecoded(st) == IF st.failed \/ st.k # Punycode.base THEN <<>> ELSE <<st.output>>
\* s is decoded, b being the index of its last hyphen, or 0: the code points
\* before the hyphen are copied, and the digits begin after it
PunycodeDecodeFrom(s, b) ==
    IF \E j \in 1..(b - 1) : s[j] >= Punycode.initialN THEN <<>>
    ELSE PunycodeDecoded(
            Run(PunycodeDecodeStep,
                [p |-> b + 1, input |-> s, n |-> Punycode.initialN,
                 i |-> 0, oldi |-> 0, w |-> 1, k |-> Punycode.base,
                 bias |-> Punycode.initialBias, failed |-> FALSE,
                 output |-> SubSeq(s, 1, b - 1)],
                b + 1, Len(s)))
\* <<the code points that s encodes>>, or <<>> for failure
PunycodeDecode(s) == PunycodeDecodeFrom(s, LastIn(s, Len(s), {Char.hyphen}))

\* the digits of the variable-length integer q
RECURSIVE PunycodeDigits(_, _, _)
PunycodeDigits(q, k, bias) ==
    IF q < Threshold(k, bias) THEN <<IF q < 26 THEN q + 97 ELSE q - 26 + 48>>
    ELSE LET digit == Threshold(k, bias)
                        + ((q - Threshold(k, bias)) % (Punycode.base - Threshold(k, bias)))
         IN  <<IF digit < 26 THEN digit + 97 ELSE digit - 26 + 48>>
                \o PunycodeDigits((q - Threshold(k, bias)) \div (Punycode.base - Threshold(k, bias)),
                                  k + Punycode.base, bias)

\* Encoding has a round for every code point of the input that is not
\* basic, in ascending order (rounds), and in it a step for every code point
\* of the input.  Code point c is read in the round of m, delta being what
\* it is after the code points that were passed over when the round began;
\* ended tells that the round ends with c, and then delta and n grow by one.
\* A code point below m adds one to delta, and m itself is written as the
\* digits of delta.
PunycodeRead(st, c, m, delta, ended) ==
    IF c < m
    THEN [st EXCEPT !.p = @ + 1, !.n = IF ended THEN m + 1 ELSE m,
                    !.delta = IF ended THEN delta + 2 ELSE delta + 1]
    ELSE IF c = m
    THEN [st EXCEPT !.p = @ + 1, !.n = IF ended THEN m + 1 ELSE m,
                    !.delta = IF ended THEN 1 ELSE 0, !.h = @ + 1,
                    !.bias = Adapt(delta, st.h + 1, st.h = st.b),
                    !.output = @ \o PunycodeDigits(delta, Punycode.base, st.bias)]
    ELSE [st EXCEPT !.p = @ + 1, !.n = IF ended THEN m + 1 ELSE m,
                    !.delta = IF ended THEN delta + 1 ELSE delta]
\* step p is at code point j of the input, in the round of m
PunycodeEncodeAt(st, j, m) ==
    IF j = 1 /\ m - st.n > (Punycode.maxint - st.delta) \div (st.h + 1)
    THEN [st EXCEPT !.failed = TRUE, !.p = (Len(st.input) * Len(st.rounds)) + 1]
    ELSE PunycodeRead(st, st.input[j], m,
                      IF j = 1 THEN st.delta + ((m - st.n) * (st.h + 1)) ELSE st.delta,
                      j = Len(st.input))
PunycodeEncodeStep(st) ==
    PunycodeEncodeAt(st, ((st.p - 1) % Len(st.input)) + 1,
                     st.rounds[((st.p - 1) \div Len(st.input)) + 1])
PunycodeEncoded(st) == IF st.failed THEN <<>> ELSE <<st.output>>
\* s is encoded, basic being its basic code points and others the set of
\* the others
PunycodeEncodeOf(s, basic, others) ==
    PunycodeEncoded(
        Run(PunycodeEncodeStep,
            [p |-> 1, input |-> s, b |-> Len(basic), n |-> Punycode.initialN, delta |-> 0,
             h |-> Len(basic), bias |-> Punycode.initialBias, failed |-> FALSE,
             rounds |-> SubSeq([r \in 1..Cardinality(others) |->
                                    CHOOSE c \in others :
                                        Cardinality({e \in others : e < c}) = r - 1],
                               1, Cardinality(others)),
             output |-> IF basic # <<>> THEN Append(basic, Char.hyphen) ELSE basic],
            1, Len(s) * Cardinality(others)))
\* <<the encoding of s>>, or <<>> for overflow
PunycodeEncode(s) ==
    PunycodeEncodeOf(s, SelectSeq(s, LAMBDA c : c < Punycode.initialN),
                     {c \in {s[j] : j \in 1..Len(s)} : c >= Punycode.initialN})

(* Domain to ASCII, as the URL parser of Node 20 does it (ada, idna):     *)
(* the mapping of UTS #46, NFC, and then label by label.  Only a label     *)
(* that is not ASCII, and what a label after xn-- decodes to, are checked  *)
(* for validity; the check of the joiners ends at the first joiner, and    *)
(* the Bidi rule is applied to a label by itself.                          *)

\* x n - -
XnPrefix == <<120, 110, 45, 45>>
StartsWithXn(l) == Len(l) >= 4 /\ SubSeq(l, 1, 4) = XnPrefix

\* map: an ignored code point goes, a mapped one is replaced, the others
\* stay; rows are the rows of the IDNA mapping table for the code points of s
IdnaMap(s, rows) ==
    Flatten([j \in 1..Len(s) |->
                CASE rows[j][2] = "ignored" -> <<>>
                  [] rows[j][2] = "mapped" -> rows[j][3]
                  [] OTHER -> <<s[j]>>], 1, Len(s))

\* U+200C zero width non-joiner, U+200D zero width joiner
Joiners == {8204, 8205}
\* is_label_valid, at the first joiner of the label, which is at i: the
\* answer is that of the whole check.  After a virama both joiners pass; a
\* zero width non-joiner also passes between a code point of joining type L
\* or D somewhere before it and one of type R or D somewhere after it.
JoinersOK(l, i, joining) ==
    \/ i > 1 /\ l[i - 1] \in Virama
    \/ /\ l[i] = 8204
       /\ i > 1
       /\ i < Len(l)
       /\ \E j \in 1..(i - 1) : joining[j] \in {"L", "D"}
       /\ \E j \in (i + 1)..Len(l) : joining[j] \in {"R", "D"}

\* is_label_valid, the Bidi rule, for a label whose Bidi classes are bidi,
\* the last of them that is not NSM being at final.  A label without R, AL
\* and AN passes; one that begins with L is read as left-to-right, up to the
\* code point before final; any other as right-to-left, up to final.
BidiOK(bidi, final) ==
    /\ final > 0
    /\ \/ \A j \in 1..Len(bidi) : bidi[j] \notin {"R", "AL", "AN"}
       \/ IF bidi[1] = "L"
          THEN \A j \in 1..(final - 1) :
                    bidi[j] \in {"L", "EN", "ES", "CS", "ET", "ON", "BN", "NSM"}
          ELSE /\ \A j \in 1..final :
                    bidi[j] \in {"R", "AL", "AN", "EN", "ES", "CS", "ET", "ON", "BN", "NSM"}
               /\ bidi[final] \in {"R", "AL", "AN", "EN"}
               /\ \/ \A j \in 1..final : bidi[j] # "EN"
                  \/ \A j \in 1..final : bidi[j] # "AN"
LabelBidi(bidi) == BidiOK(bidi, LastNotIn(bidi, Len(bidi), {"NSM"}))

\* is_label_valid: an empty label is valid; a label must not begin with a
\* combining mark; its first joiner, if it has one, decides; the Bidi rule
\* decides otherwise
LabelValid(l) ==
    \/ l = <<>>
    \/ /\ ~Row(GeneralCategoryMark, l[1])[2]
       /\ IF \E j \in 1..Len(l) : l[j] \in Joiners
          THEN JoinersOK(l, FirstIn(l, 1, Joiners), PropertyOf(JoiningTypeTable, l))
          ELSE LabelBidi(PropertyOf(BidiClassTable, l))

\* what the Punycode of a label decodes to, u, whose rows of the IDNA
\* mapping table are rows, must be what the mapping leaves as it is, in NFC,
\* not empty, and a valid label
Validated(u, rows) ==
    /\ \A j \in 1..Len(u) : rows[j][2] = "valid"
    /\ NFC(u) = u
    /\ u # <<>>
    /\ LabelValid(u)
Converted(u) == u # <<>> /\ Validated(u[1], Rows(IdnaMappingTable, u[1]))
\* a label that starts with xn-- is ASCII, and what follows the prefix is
\* the Punycode of such a label
UnicodeLabel(l) == IsAscii(l) /\ Converted(PunycodeDecode(SubSeq(l, 5, Len(l))))

\* a label of the domain that was mapped and normalized, in ASCII: <<the
\* label>>, or <<>> for failure; e is the result of its Punycode encoding.
\* An empty label and an ASCII label are copied.
AsciiLabel(l, e) ==
    IF l = <<>> THEN <<l>>
    ELSE IF StartsWithXn(l) THEN (IF UnicodeLabel(l) THEN <<l>> ELSE <<>>)
    ELSE IF IsAscii(l) THEN <<l>>
    ELSE IF ~LabelValid(l) \/ e = <<>> THEN <<>>
    ELSE <<XnPrefix \o e[1]>>

\* the labels in ASCII, ascii, joined by dots: <<the domain>>, or <<>> for
\* failure
Joined(d) == IF d = <<>> THEN <<>> ELSE <<d>>
ToASCII(ascii) ==
    IF \E k \in 1..Len(ascii) : ascii[k] = <<>> THEN <<>>
    ELSE Joined(Flatten([k \in 1..Len(ascii) |->
                            IF k = 1 THEN ascii[k][1] ELSE <<Char.dot>> \o ascii[k][1]],
                        1, Len(ascii)))
\* to_ascii, of the labels of the domain that was mapped and normalized
ProcessLabels(labels) ==
    ToASCII(SubSeq([k \in 1..Len(labels) |->
                        AsciiLabel(labels[k], PunycodeEncode(labels[k]))], 1, Len(labels)))
\* to_ascii, of a domain whose rows of the IDNA mapping table are rows: a
\* disallowed code point is a failure
Mapped(domain, rows) ==
    IF \E j \in 1..Len(domain) : rows[j][2] = "disallowed" THEN <<>>
    ELSE ProcessLabels(Split(NFC(IdnaMap(domain, rows)), Char.dot))

\* from_ascii_to_ascii, of the ASCII domain d in lower case, whose labels
\* are labels: the domain stays as it is, and a label that starts with xn--
\* is checked
XnLabelsOK(labels) ==
    \A k \in 1..Len(labels) : StartsWithXn(labels[k]) => UnicodeLabel(labels[k])
FromASCII(d) == IF XnLabelsOK(Split(d, Char.dot)) THEN Joined(d) ELSE <<>>
\* domain to ASCII: <<the ASCII domain>>, or <<>> for failure; an empty
\* result is a failure
DomainToASCII(domain) ==
    IF IsAscii(domain) THEN FromASCII(LowerCase(domain))
    ELSE Mapped(domain, Rows(IdnaMappingTable, domain))

(* Hosts.                                                                   *)

\* the digits of an IPv4 number, and its radix: 0x is hexadecimal, a leading
\* 0 octal
IPv4Digits(part) ==
    IF Len(part) >= 2 /\ part[1] = Char.zero /\ part[2] \in {Char.x, Char.X}
    THEN <<SubSeq(part, 3, Len(part)), 16, HexChars>>
    ELSE IF Len(part) >= 2 /\ part[1] = Char.zero
    THEN <<SubSeq(part, 2, Len(part)), 8, 48..55>>
    ELSE <<part, 10, DigitChars>>
\* what the digits ds write in radix R, whose digits are the set ok
IPv4Value(part, ds, R, ok) ==
    IF part = <<>> \/ \E j \in 1..Len(ds) : ds[j] \notin ok THEN <<>> ELSE <<Number(ds, R)>>
\* IPv4 number parser: <<the number>>, or <<>> for failure
IPv4Number(part) ==
    IPv4Value(part, IPv4Digits(part)[1], IPv4Digits(part)[2], IPv4Digits(part)[3])

\* the labels of a domain, without the empty one a trailing dot leaves
Unrooted(parts) ==
    IF Len(parts) > 1 /\ parts[Len(parts)] = <<>> THEN SubSeq(parts, 1, Len(parts) - 1)
    ELSE parts
Labels(d) == Unrooted(Split(d, Char.dot))

\* the last label is a number: it is all digits, or an IPv4 number
IsNumber(final) ==
    \/ final # <<>> /\ \A j \in 1..Len(final) : final[j] \in DigitChars
    \/ IPv4Number(final) # <<>>
\* ends-in-a-number checker
EndsInNumber(d) == IsNumber(Final(Labels(d)))

\* at most four numbers, all but the last below 256, the last below
\* 256^(5 - how many there are)
IPv4Numbers(numbers) ==
    /\ Len(numbers) <= 4
    /\ \A k \in 1..Len(numbers) : numbers[k] # <<>>
    /\ \A k \in 1..(Len(numbers) - 1) : numbers[k][1][1] = 0 /\ numbers[k][1][2] <= 255
    /\ CASE Len(numbers) = 1 -> numbers[1][1][1] < Half
         [] Len(numbers) = 2 -> numbers[2][1][1] < 256
         [] Len(numbers) = 3 -> numbers[3][1][1] = 0
         [] OTHER -> numbers[4][1][1] = 0 /\ numbers[4][1][2] <= 255
IPv4Parts(parts) == IPv4Numbers([k \in 1..Len(parts) |-> IPv4Number(parts[k])])
\* IPv4 parser
IPv4OK(d) == IPv4Parts(Labels(d))

\* the IPv4 address that ends an IPv6 address: four decimal numbers up to
\* 255, none with a leading zero, and nothing after them
IPv4InIPv6Parts(parts) ==
    /\ Len(parts) = 4
    /\ \A k \in 1..4 :
        /\ parts[k] # <<>>
        /\ Len(parts[k]) <= 3
        /\ \A j \in 1..Len(parts[k]) : parts[k][j] \in DigitChars
        /\ Len(parts[k]) > 1 => parts[k][1] # Char.zero
        /\ Number(parts[k], 10)[2] <= 255
IPv4InIPv6OK(s) == IPv4InIPv6Parts(Split(s, Char.dot))

\* IPv6 parser from pointer p on, with pieceIndex many pieces read and
\* compress telling whether :: was met; a piece is the hex digits from p to
\* before q, at most four
RECURSIVE IPv6Pieces(_, _, _, _)
RECURSIVE IPv6Piece(_, _, _, _, _)
IPv6Piece(s, p, q, pieceIndex, compress) ==
    IF q > Len(s) THEN IPv6Pieces(s, q, pieceIndex + 1, compress)
    ELSE IF s[q] = Char.dot THEN
           /\ q > p
           /\ pieceIndex <= 6
           /\ IPv4InIPv6OK(SubSeq(s, p, Len(s)))
           /\ compress \/ pieceIndex + 2 = 8
    ELSE IF s[q] = Char.colon THEN
           q + 1 <= Len(s) /\ IPv6Pieces(s, q + 1, pieceIndex + 1, compress)
    ELSE FALSE
IPv6Pieces(s, p, pieceIndex, compress) ==
    IF p > Len(s) THEN compress \/ pieceIndex = 8
    ELSE IF pieceIndex = 8 THEN FALSE
    ELSE IF s[p] = Char.colon THEN ~compress /\ IPv6Pieces(s, p + 1, pieceIndex + 1, TRUE)
    ELSE IPv6Piece(s, p, IF FirstNotIn(s, p, HexChars) - p > 4 THEN p + 4
                         ELSE FirstNotIn(s, p, HexChars), pieceIndex, compress)

IPv6OK(s) ==
    IF s # <<>> /\ s[1] = Char.colon
    THEN Len(s) >= 2 /\ s[2] = Char.colon /\ IPv6Pieces(s, 3, 1, TRUE)
    ELSE IPv6Pieces(s, 1, 0, FALSE)

\* what domain to ASCII gives has no forbidden domain code point, and what
\* ends in a number has to be an IPv4 address
DomainAllowed(asciiDomain) ==
    /\ asciiDomain # <<>>
    /\ \A j \in 1..Len(asciiDomain[1]) : asciiDomain[1][j] \notin ForbiddenDomain
    /\ EndsInNumber(asciiDomain[1]) => IPv4OK(asciiDomain[1])
\* the host parser on what is no IPv6 address and no opaque host: percent-decode
\* the UTF-8 bytes, UTF-8 decode without BOM, domain to ASCII
DomainOK(h) == DomainAllowed(DomainToASCII(Utf8DecodeWithoutBOM(PercentDecode(Utf8Encode(h)))))

\* host parser
HostParse(h, isOpaque) ==
    IF h # <<>> /\ h[1] = Char.leftBracket
    THEN h[Len(h)] = Char.rightBracket /\ IPv6OK(SubSeq(h, 2, Len(h) - 1))
    ELSE IF isOpaque THEN \A j \in 1..Len(h) : h[j] \notin ForbiddenHost
    ELSE DomainOK(h)

\* b, the index of the last bracket before a code point of s, or 0, is that
\* of a [: the code point is inside brackets
InsideBrackets(s, b) == b # 0 /\ s[b] = Char.leftBracket
\* the index of the first colon of s that is outside of brackets, or Len(s)+1
HostEnd(s) ==
    Head(SelectSeq([j \in 1..(Len(s) + 1) |-> j],
                   LAMBDA j : j > Len(s)
                                \/ /\ s[j] = Char.colon
                                   /\ ~InsideBrackets(s, LastIn(s, j, {Char.leftBracket,
                                                                       Char.rightBracket}))))

\* host state and port state: the host ends at c, the first colon outside of
\* brackets; a port needs a host, and so does a special scheme
HostPort(hostport, c, special) ==
    /\ (special \/ c <= Len(hostport)) => c > 1
    /\ HostParse(SubSeq(hostport, 1, c - 1), ~special)
    /\ PortOK(SubSeq(hostport, c + 1, Len(hostport)))
HostOK(hostport, special) == HostPort(hostport, HostEnd(hostport), special)

\* what precedes the last @ of the authority, at index at or 0, is the
\* credentials, and credentials need a host
Credentials(auth, at, special) ==
    /\ at # 0 => at < Len(auth)
    /\ HostOK(SubSeq(auth, at + 1, Len(auth)), special)
Authority(auth, special) == Credentials(auth, LastIn(auth, Len(auth), {Char.at}), special)
\* authority state: the authority ends at the first / ? # (and \ for a
\* special scheme)
AuthorityOK(r, special) ==
    Authority(SubSeq(r, 1, FirstIn(r, 1, {Char.slash, Char.question, Char.hash}
                                            \cup (IF special THEN {Char.backslash} ELSE {})) - 1),
              special)

\* file host state: the host has no port, and may be empty or a Windows
\* drive letter (then it is the start of the path)
FileHost(buffer) ==
    \/ buffer = <<>>
    \/ /\ Len(buffer) = 2
       /\ buffer[1] \in AlphaChars
       /\ buffer[2] \in {Char.colon, Char.bar}
    \/ HostParse(buffer, FALSE)
\* file state and file slash state: after two slashes comes a host, anything
\* else is a path
FileOK(rest) ==
    IF Len(rest) >= 2 /\ rest[1] \in {Char.slash, Char.backslash}
                      /\ rest[2] \in {Char.slash, Char.backslash}
    THEN FileHost(SubSeq(rest, 3, FirstIn(rest, 3, {Char.slash, Char.backslash,
                                                    Char.question, Char.hash}) - 1))
    ELSE TRUE

\* what follows the scheme and its colon: special schemes ignore any run of
\* slashes before the authority, and other schemes have an authority only
\* after "//"
AfterScheme(scheme, rest) ==
    IF scheme = FileScheme THEN FileOK(rest)
    ELSE IF scheme \in SpecialSchemes \/ (Len(rest) >= 2 /\ rest[1] = Char.slash
                                                       /\ rest[2] = Char.slash)
    THEN AuthorityOK(IF scheme \in SpecialSchemes
                     THEN SubSeq(rest, FirstNotIn(rest, 1, {Char.slash, Char.backslash}),
                                 Len(rest))
                     ELSE SubSeq(rest, 3, Len(rest)),
                     scheme \in SpecialSchemes)
    ELSE TRUE
\* scheme start state and scheme state: the scheme of s ends before the
\* colon at c
Scheme(s, c) ==
    /\ c <= Len(s)
    /\ s[c] = Char.colon
    /\ s[1] \in AlphaChars
    /\ AfterScheme(LowerCase(SubSeq(s, 1, c - 1)), SubSeq(s, c + 1, Len(s)))
Parse(s) == Scheme(s, FirstNotIn(s, 1, SchemeChars))
IsURL(cs) == Parse(Trim(CodePoints(cs)))

----------------------------------------------------------------------------
(* zod: each schema is a parse function from a value to a parse result.    *)
(* An issue carries zod's issue code, the received type, and its path (the *)
(* object key, and the array index or 0).                                   *)

Issue(code, received) == [code |-> code, received |-> received, field |-> "", index |-> 0]

Valid(v) == [ok |-> TRUE, value |-> v, issues |-> {}]
Invalid(issues) == [ok |-> FALSE, value |-> Undef, issues |-> issues]

ZString(v) ==
    IF v.t # "string" THEN Invalid({Issue("invalid_type", v.t)}) ELSE Valid(v)

\* a slip: the .url() check left out
ZStringUrlUnchecked(v) ==
    IF v.t # "string" THEN Invalid({Issue("invalid_type", v.t)}) ELSE Valid(v)

ZStringUrl(v) ==
    IF v.t # "string" THEN Invalid({Issue("invalid_type", v.t)})
    ELSE IF ~IsURL(v.v) THEN Invalid({Issue("invalid_string", v.t)})
    ELSE Valid(v)

ZBoolean(v) ==
    IF v.t # "boolean" THEN Invalid({Issue("invalid_type", v.t)}) ELSE Valid(v)

ZDate(v) ==
    IF v.t # "date" THEN Invalid({Issue("invalid_type", v.t)})
    ELSE IF v.v = <<"NaN">> THEN Invalid({Issue("invalid_date", v.t)})
    ELSE Valid(DateV(v.v))

\* a slip: the second option left out
ZUnionFirstOnly(v, a, b) == a

\* a.or(b), a and b being what the two options return for the value: the
\* first that accepts it, else one invalid_union issue
ZUnion(v, a, b) ==
    IF a.ok THEN a
    ELSE IF b.ok THEN b
    ELSE Invalid({Issue("invalid_union", v.t)})

\* inner.optional(), inner being what the inner schema returns for the value
ZOptional(v, inner) == IF v.t = "undefined" THEN Valid(Undef) ELSE inner

\* a slip: the default given whatever the value
ZDefaultAlways(v, inner, ofDefault) == ofDefault

\* inner.default(def): undefined is replaced by the default, which the inner
\* schema then parses (ofDefault); any other value goes to the inner schema (inner)
ZDefault(v, inner, ofDefault) == IF v.t = "undefined" THEN ofDefault ELSE inner

\* z.array(item), parsed being what the item schema returns for each item:
\* the parsed items go into a new array, the issues get the item's index
ZArray(v, parsed) ==
    IF v.t # "array" THEN Invalid({Issue("invalid_type", v.t)})
    ELSE IF \E j \in 1..Len(parsed) : ~parsed[j].ok
         THEN Invalid(UNION {{[is EXCEPT !.index = j] : is \in parsed[j].issues} :
                                j \in 1..Len(parsed)})
         ELSE Valid(Arr([j \in 1..Len(parsed) |-> parsed[j].value]))

\* a slip: the parsed items collected back to front
ZArrayOfStringReversed(v) ==
    LET n == Len(v.items)
    IN  ZArray(v, [j \in 1..n |-> ZString(v.items[n + 1 - j])])

ZArrayOfString(v) == ZArray(v, [j \in 1..Len(v.items) |-> ZString(v.items[j])])

\* z.object(shape), parsed being what each key's schema returns for the
\* record's value at that key: keys outside the shape are stripped from the
\* output and raise nothing.  A record is a function on Keys, Undef where the
\* key is absent.
Keys == {"title", "description", "date", "url", "repo", "thumbnail", "tags",
         "project", "draft", "author"}

NoData == [k \in Keys |-> Undef]

\* a slip: the object made .strict(), which rejects keys outside the shape
ZObjectStrict(shapeKeys, parsed, raw) ==
    LET issues == UNION {{[is EXCEPT !.field = k] : is \in parsed[k].issues} :
                            k \in shapeKeys}
        extra == {[Issue("unrecognized_keys", "object") EXCEPT !.field = k] :
                    k \in {k \in Keys \ shapeKeys : raw[k] # Undef}}
    IN  IF issues \cup extra = {}
        THEN [success |-> TRUE,
              data |-> [k \in Keys |-> IF k \in shapeKeys THEN parsed[k].value ELSE Undef],
              issues |-> {}]
        ELSE [success |-> FALSE, data |-> NoData, issues |-> issues \cup extra]

ZObject(shapeKeys, parsed, raw) ==
    LET issues == UNION {{[is EXCEPT !.field = k] : is \in parsed[k].issues} :
                            k \in shapeKeys}
    IN  IF issues = {}
        THEN [success |-> TRUE,
              data |-> [k \in Keys |-> IF k \in shapeKeys THEN parsed[k].value ELSE Undef],
              issues |-> {}]
        ELSE [success |-> FALSE, data |-> NoData, issues |-> issues]

----------------------------------------------------------------------------
(* The content config: the two collection schemas.                          *)

\* the array literal of .default([]) is an object, made when its schema is
\* built: the blog schema has one and the project schema has another
DefaultAddr == 0
DefaultAddrProject == 1
DefaultTags == Arr(heap[DefaultAddr])
DefaultTagsProject == Arr(heap[DefaultAddrProject])

BlogKeys == {"title", "description", "date", "tags", "project", "draft"}
ProjectKeys == {"title", "description", "date", "url", "repo", "thumbnail", "tags", "draft"}

\* a slip: the title declared optional
blogFieldTitleOptional(k, v) ==
    CASE k = "title" -> ZOptional(v, ZString(v))
      [] k = "description" -> ZOptional(v, ZString(v))
      [] k = "date" -> ZUnion(v, ZString(v), ZDate(v))
      [] k = "tags" -> ZDefault(v, ZArrayOfString(v), ZArrayOfString(DefaultTags))
      [] k = "project" -> ZOptional(v, ZString(v))
      [] k = "draft" -> ZDefault(v, ZBoolean(v), ZBoolean(Bool(FALSE)))

\* a slip: a blog record's `project` has to name a project stored by now
blogFieldReferenceChecked(k, v) ==
    CASE k = "title" -> ZString(v)
      [] k = "description" -> ZOptional(v, ZString(v))
      [] k = "date" -> ZUnion(v, ZString(v), ZDate(v))
      [] k = "tags" -> ZDefault(v, ZArrayOfString(v), ZArrayOfString(DefaultTags))
      [] k = "project" ->
            IF v.t = "string" /\ \A i \in DOMAIN store["project"] : store["project"][i].id # v.v
            THEN Invalid({Issue("custom", v.t)})
            ELSE ZOptional(v, ZString(v))
      [] k = "draft" -> ZDefault(v, ZBoolean(v), ZBoolean(Bool(FALSE)))

blogField(k, v) ==
    CASE k = "title" -> ZString(v)
      [] k = "description" -> ZOptional(v, ZString(v))
      [] k = "date" -> ZUnion(v, ZString(v), ZDate(v))
      [] k = "tags" -> ZDefault(v, ZArrayOfString(v), ZArrayOfString(DefaultTags))
      [] k = "project" -> ZOptional(v, ZString(v))
      [] k = "draft" -> ZDefault(v, ZBoolean(v), ZBoolean(Bool(FALSE)))

\* a slip: the later project schema with `thumbnail` demanded
projectFieldThumbnailRequired(k, v) ==
    CASE k = "title" -> ZString(v)
      [] k = "description" -> ZOptional(v, ZString(v))
      [] k = "date" -> ZUnion(v, ZString(v), ZDate(v))
      [] k = "url" -> ZOptional(v, ZStringUrl(v))
      [] k = "repo" -> ZOptional(v, ZStringUrl(v))
      [] k = "thumbnail" -> ZString(v)
      [] k = "tags" -> ZDefault(v, ZArrayOfString(v), ZArrayOfString(DefaultTagsProject))
      [] k = "draft" -> ZDefault(v, ZBoolean(v), ZBoolean(Bool(FALSE)))

projectField(k, v) ==
    CASE k = "title" -> ZString(v)
      [] k = "description" -> ZOptional(v, ZString(v))
      [] k = "date" -> ZUnion(v, ZString(v), ZDate(v))
      [] k = "url" -> ZOptional(v, ZStringUrl(v))
      [] k = "repo" -> ZOptional(v, ZStringUrl(v))
      [] k = "thumbnail" -> ZOptional(v, ZString(v))
      [] k = "tags" -> ZDefault(v, ZArrayOfString(v), ZArrayOfString(DefaultTagsProject))
      [] k = "draft" -> ZDefault(v, ZBoolean(v), ZBoolean(Bool(FALSE)))

blog(raw) == ZObject(BlogKeys, [k \in BlogKeys |-> blogField(k, raw[k])], raw)
project(raw) == ZObject(ProjectKeys, [k \in ProjectKeys |-> projectField(k, raw[k])], raw)

Collections == {"blog", "project"}
ShapeKeys(c) == IF c = "blog" THEN BlogKeys ELSE ProjectKeys

\* collections[c].schema applied to the front matter of an entry of collection c
Validate(c, raw) == IF c = "blog" THEN blog(raw) ELSE project(raw)

\* The earlier version of the content config: blog without `project`,
\* project without `thumbnail`; its default for tags is a literal of its own.
BlogKeysEarlier == {"title", "description", "date", "tags", "draft"}
ProjectKeysEarlier == {"title", "description", "date", "url", "repo", "tags", "draft"}

blogFieldEarlier(k, v) ==
    CASE k = "title" -> ZString(v)
      [] k = "description" -> ZOptional(v, ZString(v))
      [] k = "date" -> ZUnion(v, ZString(v), ZDate(v))
      [] k = "tags" -> ZDefault(v, ZArrayOfString(v), ZArrayOfString(Arr(<<>>)))
      [] k = "draft" -> ZDefault(v, ZBoolean(v), ZBoolean(Bool(FALSE)))

projectFieldEarlier(k, v) ==
    CASE k = "title" -> ZString(v)
      [] k = "description" -> ZOptional(v, ZString(v))
      [] k = "date" -> ZUnion(v, ZString(v), ZDate(v))
      [] k = "url" -> ZOptional(v, ZStringUrl(v))
      [] k = "repo" -> ZOptional(v, ZStringUrl(v))
      [] k = "tags" -> ZDefault(v, ZArrayOfString(v), ZArrayOfString(Arr(<<>>)))
      [] k = "draft" -> ZDefault(v, ZBoolean(v), ZBoolean(Bool(FALSE)))

blogEarlier(raw) ==
    ZObject(BlogKeysEarlier, [k \in BlogKeysEarlier |-> blogFieldEarlier(k, raw[k])], raw)
projectEarlier(raw) ==
    ZObject(ProjectKeysEarlier, [k \in ProjectKeysEarlier |-> projectFieldEarlier(k, raw[k])], raw)

ShapeKeysEarlier(c) == IF c = "blog" THEN BlogKeysEarlier ELSE ProjectKeysEarlier

\* the earlier collections[c].schema applied to the front matter of an entry
ValidateEarlier(c, raw) == IF c = "blog" THEN blogEarlier(raw) ELSE projectEarlier(raw)

\* The error kinds of the validator's contract, read off a zod issue.
Kind(is) ==
    IF is.code \in {"invalid_type", "invalid_union"} /\ is.received = "undefined"
    THEN "MissingRequiredField"
    ELSE IF is.code \in {"invalid_type", "invalid_union", "invalid_date"}
    THEN "TypeMismatch"
    ELSE IF is.code = "invalid_string" THEN "MalformedURL"
    ELSE "Other"

\* the errors of a validation result: which field, which kind
Errors(r) == {[field |-> is.field, kind |-> Kind(is)] : is \in r.issues}

----------------------------------------------------------------------------
(* Front-matter records.                                                    *)

Rec(title, description, date, url, repo, thumbnail, tags, proj, draft, author) ==
    [k \in Keys |->
        CASE k = "title" -> title
          [] k = "description" -> description
          [] k = "date" -> date
          [] k = "url" -> url
          [] k = "repo" -> repo
          [] k = "thumbnail" -> thumbnail
          [] k = "tags" -> tags
          [] k = "project" -> proj
          [] k = "draft" -> draft
          [] k = "author" -> author]

TagsAB == Arr(<<Str(<<"a">>), Str(<<"b">>)>>)

TitleVals == {Undef, Str(Chars_Hello), Num(<<"4", "2">>)}
DescriptionVals == {Undef, Str(Chars_Desc), Null}
DateVals == {Undef, Str(Chars_Day), DateV(Chars_Day), Null, Num(<<"4", "2">>)}
TagsVals == {Undef, Arr(<<>>), TagsAB, Arr(<<Str(<<"a">>), Num(<<"1">>)>>), Str(<<"a">>)}
DraftVals == {Undef, Bool(TRUE), Bool(FALSE), Str(<<"n", "o">>)}
ProjectVals == {Undef, Str(Chars_GameEngine), Num(<<"1">>)}
UrlVals == {Undef, Str(Chars_Https), Str(Chars_NotAUrl), Str(Chars_Mailto), Num(<<"1">>)}
RepoVals == {Undef, Str(Chars_Https), Str(Chars_NotDashUrl), Str(Chars_NoHost), Str(Chars_Bare)}
UrlStrings ==
    {Chars_Https, Chars_NotAUrl, Chars_NotDashUrl, Chars_NoHost, Chars_Mailto, Chars_Bare,
     Chars_FilePath, Chars_UpperScheme, Chars_UserInfo, Chars_IPv6, Chars_TabFirst, Chars_OneLetter,
     Chars_FilePort, Chars_BigPort, Chars_SchemeOnly, Chars_Percent,
     Chars_FiveParts, Chars_PortNoHost, Chars_BadIPv4, Chars_Angle,
     Chars_Punycode, Chars_PunycodeEscaped, Chars_EmptyPunycode, Chars_Replacement,
     Chars_SoftHyphen, Chars_WidePercent, Chars_ControlFirst, Chars_ControlInHost,
     Chars_Accent, Chars_Bidi, Chars_BidiLast, Chars_PunycodeOfAscii, Chars_PunycodeHyphen,
     Chars_PunycodeLater, Chars_NonJoiner, Chars_BidiMark, Chars_NonJoinerMandaic,
     Chars_NonJoinerSupplement}
ThumbnailVals == {Undef, Str(Chars_Thumb)}
AuthorVals == {Undef, Str(Chars_Author)}

\* the content file at place i of collection c is named after its place
Digits == <<"1", "2", "3", "4", "5", "6", "7", "8", "9">>
FileId(c, i) ==
    IF c = "project"
    THEN (IF i = 1 THEN Chars_GameEngine ELSE Chars_Site \o <<Digits[i]>>)
    ELSE <<"p", "o", "s", "t", Digits[i]>>

File(c, i, raw) == [id |-> FileId(c, i), raw |-> raw]

\* the bounds of the builds checked below: files per collection, and how many
\* items the page layer pushes onto one tags array
MaxBlog == 2
MaxProject == 1
MaxPush == 1

----------------------------------------------------------------------------
(* The TaglineClient component.                                             *)

taglines ==
    <<"アドリアン・マンハレス",
      "Just coding for fun.",
      "Shipping tiny things.",
      "Learning in public.",
      "Minimal code, maximal joy.",
      "Building, breaking, fixing.",
      "Coffee-fueled commits.",
      "Less boilerplate, more craft.",
      "Curious by default.",
      "Make it simple.">>

\* what Math.random() can return is k / RandomGrain, k in 0..RandomGrain-1;
\* how often the component is rendered
RandomGrain == 20
MaxRenders == 5

\* String(taglines[Math.floor(Math.random() * taglines.length)] ?? ""),
\* with Math.random() = k / RandomGrain; taglines is indexed from 0
Pick(k) ==
    LET idx == (k * Len(taglines)) \div RandomGrain
    IN  IF idx + 1 \in DOMAIN taglines THEN taglines[idx + 1] ELSE ""

\* a slip: the memo has no dependency list that holds, it draws at every render
UseMemoNoDeps(w, fresh) == fresh

\* useMemo(..., [taglines]): computed at the first render; taglines is the
\* same array at every later render, so the value is kept
UseMemo(w, fresh) == IF w.mounted THEN w.random ELSE fresh

\* the component before it is mounted: no hook has a value, nothing is displayed
Unmounted ==
    [mounted |-> FALSE, text |-> "", random |-> "", shown |-> "",
     effect |-> FALSE, dirty |-> FALSE, renders |-> 0]

\* the build that the component's steps leave alone
BuildVars == <<files, pc, pending, store, failure, heap, nextAddr, answers, last, again, earlier>>

\* a render of TaglineClient, the first one or a later one: the hooks are
\* called, the effect is queued if `random` differs from the render before,
\* and <p class="tagline">{text}</p> is what is displayed
Render(k) ==
    /\ component.renders < MaxRenders
    /\ LET rnd == UseMemo(component, Pick(k))
       IN  component' =
             [mounted |-> TRUE,
              text |-> component.text,
              random |-> rnd,
              shown |-> component.text,
              effect |-> component.effect \/ ~component.mounted \/ rnd # component.random,
              dirty |-> FALSE,
              renders |-> component.renders + 1]
    /\ UNCHANGED BuildVars

\* the effect runs: setText(random); a state that changes asks for a render
RunEffect ==
    /\ component.mounted
    /\ component.effect
    /\ component' = [component EXCEPT !.text = component.random,
                                      !.effect = FALSE,
                                      !.dirty = @ \/ component.random # component.text]
    /\ UNCHANGED BuildVars

----------------------------------------------------------------------------
(* The build: every entry is validated, in file order; the first failure   *)
(* aborts the build; when all are valid the collections can be queried.    *)

Predicates == {"all", "published", "tagged"}
QueryKeys == Collections \X Predicates

\* the build starts with every file pending and nothing stored
Start(fs) ==
    /\ files = fs
    /\ pc = "syncing"
    /\ pending = UNION {{<<c, i>> : i \in 1..Len(fs[c])} : c \in Collections}
    /\ store = [c \in Collections |-> <<>>]
    /\ failure = <<>>
    /\ heap = [a \in {DefaultAddr, DefaultAddrProject} |-> <<>>]
    /\ nextAddr = DefaultAddrProject + 1
    /\ answers = <<>>
    /\ last = <<>>
    /\ again = <<>>
    /\ earlier = <<>>
    /\ component = Unmounted

\* file order: blog before project, and by place within a collection
Before(p, q) == \/ p[1] = q[1] /\ p[2] < q[2]
                \/ p[1] = "blog" /\ q[1] = "project"

IsNext(p) == p \in pending /\ \A q \in pending \ {p} : Before(p, q)

\* a slip: the default's literal handed out as it is
TagsObjectShared(rawTags, fresh) == IF rawTags.t = "undefined" THEN DefaultAddr ELSE fresh

\* the array object that holds the parsed tags: z.array() parses the items
\* into a new array, also when the value it was given is the default's literal
TagsObject(rawTags, fresh) == fresh

\* function f with x mapped to y
Put(f, x, y) == [z \in DOMAIN f \cup {x} |-> IF z = x THEN y ELSE f[z]]

\* the record as the page layer reads it: its tags are the array object's items
View(e) == [k \in Keys |-> IF k = "tags" THEN Arr(heap[e.tagsRef]) ELSE e.data[k]]

\* a slip: an entry that fails is left out and the build goes on
ValidateEntrySkipping(c, i) ==
    /\ pc = "syncing"
    /\ <<c, i>> \in pending
    /\ LET r == Validate(c, files[c][i].raw)
       IN  IF r.success
           THEN /\ store' = [store EXCEPT ![c] = Put(@, i,
                                [id |-> files[c][i].id,
                                 data |-> [k \in Keys \ {"tags"} |-> r.data[k]],
                                 tagsRef |-> nextAddr])]
                /\ heap' = Put(heap, nextAddr, r.data["tags"].items)
                /\ nextAddr' = nextAddr + 1
           ELSE UNCHANGED <<store, heap, nextAddr>>
    /\ pending' = pending \ {<<c, i>>}
    /\ UNCHANGED <<files, pc, failure, answers, last, again, earlier, component>>

ValidateEntry(c, i) ==
    /\ pc = "syncing"
    /\ <<c, i>> \in pending
    /\ LET r == Validate(c, files[c][i].raw)
           ref == TagsObject(files[c][i].raw["tags"], nextAddr)
       IN  IF r.success
           THEN /\ store' = [store EXCEPT ![c] = Put(@, i,
                                [id |-> files[c][i].id,
                                 data |-> [k \in Keys \ {"tags"} |-> r.data[k]],
                                 tagsRef |-> ref])]
                /\ heap' = Put(heap, ref, r.data["tags"].items)
                /\ nextAddr' = nextAddr + 1
                /\ pending' = pending \ {<<c, i>>}
                /\ UNCHANGED <<pc, failure>>
           ELSE /\ pc' = "aborted"
                /\ failure' = <<[coll |-> c, index |-> i, issues |-> r.issues]>>
                /\ UNCHANGED <<store, heap, nextAddr, pending>>
    /\ UNCHANGED <<files, answers, last, again, earlier, component>>

\* every entry validated: the collections become queryable
FinishSync ==
    /\ pc = "syncing"
    /\ pending = {}
    /\ pc' = "rendering"
    /\ UNCHANGED <<files, pending, store, failure, heap, nextAddr, answers, last, again, earlier, component>>

Pred(p, e) ==
    CASE p = "all" -> TRUE
      [] p = "published" -> e.data["draft"] = Bool(FALSE)
      [] p = "tagged" -> e.data["tags"].items # <<>>

\* the stored entries of collection c, in file order
Entries(c) ==
    LET idx == DOMAIN store[c]
        nth(j) == CHOOSE i \in idx : Cardinality({h \in idx : h <= i}) = j
    IN  [j \in 1..Cardinality(idx) |-> [id |-> store[c][nth(j)].id, data |-> View(store[c][nth(j)])]]

\* a slip: the latest entry first
QueryResultReversed(c, p) ==
    LET r == SelectSeq(Entries(c), LAMBDA e : Pred(p, e))
    IN  [j \in 1..Len(r) |-> r[Len(r) + 1 - j]]

\* the entries of collection c that satisfy p, in the order of the store
QueryResult(c, p) == SelectSeq(Entries(c), LAMBDA e : Pred(p, e))

\* a slip: the query sorts the collection it was asked for in place, latest first
HeldSorted(s, c) ==
    [s EXCEPT ![c] = [i \in DOMAIN s[c] |-> s[c][Cardinality(DOMAIN s[c]) + 1 - i]]]

\* the records are handed out as they are held: a query changes nothing in the store
Held(s, c) == s

Query(c, p) ==
    /\ pc = "rendering"
    /\ answers' = IF <<c, p>> \in DOMAIN answers THEN answers
                  ELSE Put(answers, <<c, p>>, QueryResult(c, p))
    /\ last' = <<[key |-> <<c, p>>, value |-> QueryResult(c, p),
                   repeated |-> <<c, p>> \in DOMAIN answers]>>
    /\ store' = Held(store, c)
    /\ UNCHANGED <<files, pc, pending, failure, heap, nextAddr, again, earlier, component>>

\* the pages are generated: the build is over
FinishBuild ==
    /\ pc = "rendering"
    /\ pc' = "done"
    /\ UNCHANGED <<files, pending, store, failure, heap, nextAddr, answers, last, again, earlier, component>>

\* a stored record is put through its schema once more
Revalidate(c, i) ==
    /\ pc = "rendering"
    /\ again = <<>>
    /\ i \in DOMAIN store[c]
    /\ again' = <<[coll |-> c, index |-> i, result |-> Validate(c, View(store[c][i]))]>>
    /\ UNCHANGED <<files, pc, pending, store, failure, heap, nextAddr, answers, last,
                   earlier, component>>

\* a content file whose build has reached its verdict is put through the
\* earlier version of its collection's schema
CheckEarlier(c, i) ==
    /\ pc \in {"rendering", "aborted"}
    /\ earlier = <<>>
    /\ i \in 1..Len(files[c])
    /\ earlier' = <<[coll |-> c, index |-> i, result |-> ValidateEarlier(c, files[c][i].raw)]>>
    /\ UNCHANGED <<files, pc, pending, store, failure, heap, nextAddr, answers, last, again,
                   component>>

\* the page layer changes the tags array of a record it was handed
MutateTags(c, i, x) ==
    /\ pc \in {"syncing", "rendering"}
    /\ i \in DOMAIN store[c]
    /\ Len(heap[store[c][i].tagsRef]) < MaxPush
    /\ heap' = [heap EXCEPT ![store[c][i].tagsRef] = Append(@, x)]
    /\ UNCHANGED <<files, pc, pending, store, failure, nextAddr, answers, last, again, earlier, component>>

----------------------------------------------------------------------------
(* Builds of several files, drawn from sample entries.                      *)

\* blog: scenario A; a draft with everything set; a dangling project; no title
BlogSamples ==
    {Rec(Str(Chars_Hello), Undef, Str(Chars_Day), Undef, Undef, Undef, Undef, Undef, Undef, Undef),
     Rec(Str(Chars_X), Str(Chars_Desc), DateV(Chars_Day), Undef, Undef, Undef, TagsAB,
         Str(Chars_GameEngine), Bool(TRUE), Str(Chars_Author)),
     Rec(Str(Chars_X), Undef, Str(Chars_Day), Undef, Undef, Undef, Undef,
         Str(Chars_Nope), Bool(FALSE), Undef),
     Rec(Undef, Undef, Str(Chars_Day), Undef, Undef, Undef, Undef, Undef, Undef, Undef)}

\* project: the least; everything set; scenario B
ProjectSamples ==
    {Rec(Str(Chars_X), Undef, Str(Chars_Day), Undef, Undef, Undef, Undef, Undef, Undef, Undef),
     Rec(Str(Chars_Hello), Str(Chars_Desc), DateV(Chars_Day), Str(Chars_Https), Str(Chars_Https),
         Str(Chars_Thumb), TagsAB, Undef, Bool(TRUE), Undef),
     Rec(Str(Chars_X), Undef, Str(Chars_Day), Undef, Str(Chars_NotDashUrl), Undef, Undef,
         Undef, Undef, Undef)}

\* scenario C: five blog entries, the second and the fourth are drafts
PostC(n, draft) ==
    Rec(Str(<<"P", Digits[n]>>), Undef, Str(Chars_Day), Undef, Undef, Undef, Undef, Undef, draft, Undef)
ScenarioC ==
    [c \in Collections |->
        IF c = "blog"
        THEN <<File(c, 1, PostC(1, Undef)), File(c, 2, PostC(2, Bool(TRUE))),
               File(c, 3, PostC(3, Bool(FALSE))), File(c, 4, PostC(4, Bool(TRUE))),
               File(c, 5, PostC(5, Undef))>>
        ELSE <<>>]

Init ==
    \/ \E nb \in 0..MaxBlog, np \in 0..MaxProject :
         \E fb \in [1..nb -> BlogSamples], fp \in [1..np -> ProjectSamples] :
            Start([c \in Collections |->
                     IF c = "blog" THEN [i \in 1..nb |-> File(c, i, fb[i])]
                     ELSE [i \in 1..np |-> File(c, i, fp[i])]])
    \/ Start(ScenarioC)

Next ==
    \/ \E q \in pending : IsNext(q) /\ ValidateEntry(q[1], q[2])
    \/ FinishSync
    \/ \E c \in Collections, p \in Predicates : Query(c, p)
    \/ FinishBuild

Spec == Init /\ [][Next]_vars

\* the same build, with a page layer that writes to the tags it is handed
NextMutate ==
    \/ \E q \in pending : IsNext(q) /\ ValidateEntry(q[1], q[2])
    \/ FinishSync
    \/ FinishBuild
    \/ \E c \in Collections : \E i \in 1..Len(files[c]) : MutateTags(c, i, Str(<<"z">>))

SpecMutate == Init /\ [][NextMutate]_vars

\* the same build, with the entries taken in any order: the spec leaves the
\* order open, the entries being independent
NextAnyOrder ==
    \/ \E q \in pending : ValidateEntry(q[1], q[2])
    \/ FinishSync
    \/ FinishBuild

SpecAnyOrder == Init /\ [][NextAnyOrder]_vars

----------------------------------------------------------------------------
(* Builds of one file, over every combination of the field values above.   *)

InitValidate ==
    \E c \in Collections, t \in TitleVals, d \in DescriptionVals, dt \in DateVals,
       tg \in TagsVals, dr \in DraftVals, a \in AuthorVals :
        \/ /\ c = "blog"
           /\ \E p \in ProjectVals, u \in {Undef, Str(Chars_NotAUrl)} :
                Start([k \in Collections |->
                        IF k = c THEN <<File(c, 1, Rec(t, d, dt, u, Undef, Undef, tg, p, dr, a))>>
                        ELSE <<>>])
        \/ /\ c = "project"
           /\ \E u \in UrlVals, r \in RepoVals, th \in ThumbnailVals :
                Start([k \in Collections |->
                        IF k = c THEN <<File(c, 1, Rec(t, d, dt, u, r, th, tg, Undef, dr, a))>>
                        ELSE <<>>])

NextValidate ==
    \/ \E q \in pending : IsNext(q) /\ ValidateEntry(q[1], q[2])
    \/ FinishSync
    \/ \E c \in Collections : \E i \in 1..Len(files[c]) : Revalidate(c, i)

SpecValidate == InitValidate /\ [][NextValidate]_vars

----------------------------------------------------------------------------
(* Builds of one project file, over more strings for `url` and `repo`.     *)

InitUrl ==
    \E t \in TitleVals :
        \E u \in {Undef, Num(<<"1">>)} \cup {Str(cs) : cs \in UrlStrings},
           r \in {Undef, Num(<<"1">>)} \cup {Str(cs) : cs \in UrlStrings} :
            Start([k \in Collections |->
                    IF k = "project"
                    THEN <<File(k, 1, Rec(t, Undef, Str(Chars_Day), u, r, Undef, Undef, Undef,
                                          Undef, Undef))>>
                    ELSE <<>>])

NextUrl ==
    \/ \E q \in pending : IsNext(q) /\ ValidateEntry(q[1], q[2])
    \/ FinishSync

SpecUrl == InitUrl /\ [][NextUrl]_vars

----------------------------------------------------------------------------
(* Builds of one file under the later schema, the file then put through    *)
(* the earlier one; `thumbnail` also takes a value that is no string.      *)

InitVersions ==
    \E c \in Collections, t \in TitleVals, d \in DescriptionVals, dt \in DateVals,
       tg \in TagsVals, dr \in DraftVals, a \in AuthorVals :
        \/ /\ c = "blog"
           /\ \E p \in ProjectVals, th \in ThumbnailVals :
                Start([k \in Collections |->
                        IF k = c THEN <<File(c, 1, Rec(t, d, dt, Undef, Undef, th, tg, p, dr, a))>>
                        ELSE <<>>])
        \/ /\ c = "project"
           /\ \E u \in UrlVals, r \in RepoVals, th \in ThumbnailVals \cup {Num(<<"1">>)} :
                Start([k \in Collections |->
                        IF k = c THEN <<File(c, 1, Rec(t, d, dt, u, r, th, tg, Undef, dr, a))>>
                        ELSE <<>>])

NextVersions ==
    \/ \E q \in pending : IsNext(q) /\ ValidateEntry(q[1], q[2])
    \/ FinishSync
    \/ \E c \in Collections : \E i \in 1..Len(files[c]) : CheckEarlier(c, i)

SpecVersions == InitVersions /\ [][NextVersions]_vars

----------------------------------------------------------------------------
(* The TaglineClient component on a page: no content is involved.          *)

InitTagline == Start([c \in Collections |-> <<>>])

NextTagline ==
    \/ \E k \in 0..(RandomGrain - 1) : Render(k)
    \/ RunEffect

SpecTagline == InitTagline /\ [][NextTagline]_vars

----------------------------------------------------------------------------
(* The properties checked.                                                  *)

\* entry i of collection c is the one whose validation aborted the build
Failed(c, i) == failure # <<>> /\ failure[1].coll = c /\ failure[1].index = i

\* entry i of collection c has been put through its schema
Processed(c, i) == <<c, i>> \notin pending \/ Failed(c, i)

Stored(c, i) == i \in DOMAIN store[c]

HasError(k, kind) == failure # <<>> /\ [field |-> k, kind |-> kind] \in Errors(failure[1])

\* C1: a record of either collection that lacks `title` or `date` fails
\* validation with a MissingRequiredField error for each of the two that is
\* absent, whatever its other fields are; no normalized record is stored for
\* it and the build is aborted.
C1_MissingRequiredAborts ==
    \A c \in Collections : \A i \in 1..Len(files[c]) :
        LET raw == files[c][i].raw
        IN  (Processed(c, i) /\ (raw["title"] = Undef \/ raw["date"] = Undef)) =>
                /\ Failed(c, i)
                /\ pc = "aborted"
                /\ ~Stored(c, i)
                /\ \A k \in {"title", "date"} :
                        raw[k] = Undef => HasError(k, "MissingRequiredField")

\* a project entry without a date, whose tags are moreover no array, was rejected
C1_Witness ==
    /\ Len(files["project"]) = 1
    /\ Failed("project", 1)
    /\ files["project"][1].raw["date"] = Undef
    /\ files["project"][1].raw["title"] # Undef
    /\ files["project"][1].raw["tags"] = Str(<<"a">>)
    /\ HasError("date", "MissingRequiredField")

\* the value is a string that new URL() parses
Parses(v) == v.t = "string" /\ IsURL(v.v)

\* C2 as stated: a project record whose `url` or `repo` is present and is not
\* a well-formed absolute URL fails with a MalformedURL error naming that
\* field, and the build aborts; an absent field raises no URL error.
C2_AsStated ==
    \A i \in 1..Len(files["project"]) : \A k \in {"url", "repo"} :
        LET raw == files["project"][i].raw
        IN  Processed("project", i) =>
                /\ (raw[k] # Undef /\ ~Parses(raw[k])) =>
                        (Failed("project", i) /\ pc = "aborted" /\ HasError(k, "MalformedURL"))
                /\ (raw[k] = Undef /\ Failed("project", i)) => ~HasError(k, "MalformedURL")

\* C2, amended: a project record whose `url` or `repo` is a string that
\* new URL() does not parse fails with a MalformedURL error naming that field,
\* and the build aborts; an absent field raises no URL error, and neither
\* does a string that new URL() parses.  A value that is no string fails
\* with a type error on that field, and no URL error.
C2_MalformedURLAborts ==
    \A i \in 1..Len(files["project"]) : \A k \in {"url", "repo"} :
        LET raw == files["project"][i].raw
        IN  Processed("project", i) =>
                /\ (raw[k].t = "string" /\ ~Parses(raw[k])) =>
                        (Failed("project", i) /\ pc = "aborted" /\ HasError(k, "MalformedURL"))
                /\ ((raw[k] = Undef \/ Parses(raw[k])) /\ Failed("project", i)) =>
                        ~HasError(k, "MalformedURL")
                /\ (raw[k] # Undef /\ raw[k].t # "string") =>
                        /\ Failed("project", i)
                        /\ pc = "aborted"
                        /\ HasError(k, "TypeMismatch")
                        /\ ~HasError(k, "MalformedURL")

\* scenario B with more: repo is "not-a-url", url is absent, the title is a number
C2_Witness ==
    /\ Len(files["project"]) = 1
    /\ Failed("project", 1)
    /\ files["project"][1].raw["repo"] = Str(Chars_NotDashUrl)
    /\ files["project"][1].raw["url"] = Undef
    /\ HasError("repo", "MalformedURL")
    /\ HasError("title", "TypeMismatch")
    /\ ~HasError("url", "MalformedURL")

\* the input record with the two defaults filled in
WithDefaults(raw) ==
    [k \in Keys |->
        IF k = "tags" /\ raw[k] = Undef THEN Arr(<<>>)
        ELSE IF k = "draft" /\ raw[k] = Undef THEN Bool(FALSE)
        ELSE raw[k]]

\* C3 as stated: the normalized record of a valid entry equals the input
\* record with `tags` set to the empty sequence and `draft` to false where
\* they were omitted.
C3_AsStated ==
    \A c \in Collections : \A i \in 1..Len(files[c]) :
        Stored(c, i) => View(store[c][i]) = WithDefaults(files[c][i].raw)

\* C3, amended: on the fields its collection declares, the normalized record
\* of a valid entry equals the input record with `tags` set to the empty
\* sequence and `draft` to false where they were omitted (an omitted optional
\* field stays undefined); keys the collection does not declare are not in it.
C3_NormalizedRecord ==
    \A c \in Collections : \A i \in 1..Len(files[c]) : \A k \in Keys :
        Stored(c, i) =>
            View(store[c][i])[k] =
                IF k \in ShapeKeys(c) THEN WithDefaults(files[c][i].raw)[k] ELSE Undef

\* scenario A with an undeclared key: tags, draft and description omitted
C3_Witness ==
    /\ Len(files["blog"]) = 1
    /\ Stored("blog", 1)
    /\ files["blog"][1].raw["tags"] = Undef
    /\ files["blog"][1].raw["draft"] = Undef
    /\ files["blog"][1].raw["description"] = Undef
    /\ files["blog"][1].raw["author"] # Undef
    /\ View(store["blog"][1])["tags"] = Arr(<<>>)
    /\ View(store["blog"][1])["draft"] = Bool(FALSE)
    /\ View(store["blog"][1])["description"] = Undef
    /\ View(store["blog"][1])["title"] = Str(Chars_Hello)

\* C6: validation is idempotent on its own output: a stored (normalized)
\* record of either collection, put through its schema once more, is accepted
\* and comes back identical.
C6_Idempotent ==
    \A j \in 1..Len(again) :
        /\ again[j].result.success
        /\ again[j].result.data = View(store[again[j].coll][again[j].index])

\* a project record that had its defaults filled in was validated a second time
C6_Witness ==
    /\ again # <<>>
    /\ again[1].coll = "project"
    /\ files["project"][1].raw["tags"] = Undef
    /\ files["project"][1].raw["draft"] = Undef
    /\ files["project"][1].raw["url"] = Str(Chars_Https)
    /\ files["project"][1].raw["date"] = DateV(Chars_Day)
    /\ again[1].result.data["tags"] = Arr(<<>>)
    /\ again[1].result.data["draft"] = Bool(FALSE)

\* the record without the keys its collection does not declare and, for a
\* blog record, without its reference to a project
Clean(c, raw) ==
    [k \in Keys |->
        IF k \notin ShapeKeys(c) THEN Undef
        ELSE IF c = "blog" /\ k = "project" /\ raw[k].t = "string" THEN Undef
        ELSE raw[k]]

FatalKinds == {"MissingRequiredField", "TypeMismatch", "MalformedURL"}

\* C7: undeclared keys and a blog record's reference to a project that does
\* not exist never make validation fail: a record is rejected only if it is
\* also rejected without them, and every error that aborts a build is a
\* MissingRequiredField, TypeMismatch or MalformedURL on a declared field.
C7_OnlyThreeFatalKinds ==
    /\ pc = "aborted" => (failure # <<>> /\ failure[1].issues # {})
    /\ \A c \in Collections : \A i \in 1..Len(files[c]) :
        Failed(c, i) =>
            /\ ~Validate(c, Clean(c, files[c][i].raw)).success
            /\ \A is \in failure[1].issues :
                    Kind(is) \in FatalKinds /\ is.field \in ShapeKeys(c)

\* a blog record with two undeclared keys and a reference to a project, in a
\* build with no project at all, was accepted
C7_Witness ==
    /\ files["project"] = <<>>
    /\ Len(files["blog"]) = 1
    /\ Stored("blog", 1)
    /\ pc = "rendering"
    /\ files["blog"][1].raw["author"] = Str(Chars_Author)
    /\ files["blog"][1].raw["url"] = Str(Chars_NotAUrl)
    /\ files["blog"][1].raw["project"] = Str(Chars_GameEngine)

\* the declared type of each field
TypeOK(k, v) ==
    CASE k = "date" -> v.t \in {"string", "date"}
      [] k = "tags" -> v.t = "array" /\ \A j \in 1..Len(v.items) : v.items[j].t = "string"
      [] k = "draft" -> v.t = "boolean"
      [] OTHER -> v.t = "string"

\* C9: a record in which a declared field is present with a value outside its
\* declared type fails with a TypeMismatch error on that field and the build
\* aborts; a `date` that is a string or a date value raises no error.
C9_TypeMismatchAborts ==
    \A c \in Collections : \A i \in 1..Len(files[c]) :
        LET raw == files[c][i].raw
        IN  Processed(c, i) =>
                /\ \A k \in ShapeKeys(c) :
                        (raw[k] # Undef /\ ~TypeOK(k, raw[k])) =>
                            (Failed(c, i) /\ pc = "aborted" /\ ~Stored(c, i)
                                /\ HasError(k, "TypeMismatch"))
                /\ (Failed(c, i) /\ raw["date"].t \in {"string", "date"}) =>
                        \A is \in failure[1].issues : is.field # "date"

\* a blog record whose draft is a string and whose tags hold a number, with a
\* native date, was rejected for the two and not for its date
C9_Witness ==
    /\ Len(files["blog"]) = 1
    /\ Failed("blog", 1)
    /\ files["blog"][1].raw["date"] = DateV(Chars_Day)
    /\ files["blog"][1].raw["draft"] = Str(<<"n", "o">>)
    /\ files["blog"][1].raw["tags"] = Arr(<<Str(<<"a">>), Num(<<"1">>)>>)
    /\ HasError("draft", "TypeMismatch")
    /\ HasError("tags", "TypeMismatch")
    /\ ~HasError("date", "TypeMismatch")

\* some content file of the build does not pass its schema
SomeEntryFails ==
    \E c \in Collections : \E i \in 1..Len(files[c]) : ~Validate(c, files[c][i].raw).success

\* C4: a build has no partial success: while some entry of some collection
\* fails validation the build is syncing with entries left, or aborted, and
\* nothing has ever been queried; a build whose collections are queryable has
\* stored every entry of every collection; an aborted build takes no further
\* step (it is not retried, and what it had stored is never served).
C4_NoPartialSuccess ==
    /\ SomeEntryFails =>
            /\ pc \in {"syncing", "aborted"}
            /\ pc = "syncing" => pending # {}
            /\ answers = <<>> /\ last = <<>>
    /\ pc \in {"rendering", "done"} =>
            \A c \in Collections : \A i \in 1..Len(files[c]) : Stored(c, i)
    /\ pc = "aborted" => (SomeEntryFails /\ failure # <<>> /\ ~ENABLED Next)

\* a build was aborted by its second blog entry after the first one, and
\* nothing else, had been stored
C4_Witness ==
    /\ pc = "aborted"
    /\ Failed("blog", 2)
    /\ Stored("blog", 1)
    /\ Len(files["project"]) = 1
    /\ ~Stored("project", 1)
    /\ answers = <<>>

\* what a query for p keeps, told from the front matter
Keeps(p, raw) ==
    CASE p = "all" -> TRUE
      [] p = "published" -> raw["draft"] # Bool(TRUE)
      [] p = "tagged" -> raw["tags"] # Undef /\ raw["tags"].items # <<>>

\* the normalized entries of collection c that p keeps, in file order
Expected(c, p) ==
    LET keep == {i \in 1..Len(files[c]) : Keeps(p, files[c][i].raw)}
        nth(j) == CHOOSE i \in keep : Cardinality({h \in keep : h <= i}) = j
    IN  [j \in 1..Cardinality(keep) |->
            [id |-> files[c][nth(j)].id, data |-> Validate(c, files[c][nth(j)].raw).data]]

\* C5: every query returns exactly the normalized entries of its collection
\* that satisfy its predicate, each once, in file-enumeration order; with the
\* predicate `draft == false` these are the entries that are no drafts.
C5_QueryInFileOrder ==
    /\ \A q \in DOMAIN answers : answers[q] = Expected(q[1], q[2])
    /\ \A j \in 1..Len(last) : last[j].value = Expected(last[j].key[1], last[j].key[2])

\* scenario C: of five blog entries, the second and fourth drafts, the query
\* for the published ones returned the first, third and fifth
C5_Witness ==
    /\ Len(files["blog"]) = 5
    /\ <<"blog", "published">> \in DOMAIN answers
    /\ Len(answers[<<"blog", "published">>]) = 3
    /\ answers[<<"blog", "published">>][1].id = FileId("blog", 1)
    /\ answers[<<"blog", "published">>][2].id = FileId("blog", 3)
    /\ answers[<<"blog", "published">>][3].id = FileId("blog", 5)

\* C8: the defaulted tags of an entry are an array of its own: a step that
\* changes the tags of one stored entry that omitted `tags` leaves the tags
\* of every other such entry as they were, and an entry that omitted `tags`
\* is stored with empty tags, whatever was written to other entries before.
C8_FreshDefaultTags ==
    [][/\ \A c1 \in Collections, c2 \in Collections :
            \A i1 \in DOMAIN store[c1], i2 \in DOMAIN store[c2] :
                (/\ <<c1, i1>> # <<c2, i2>>
                 /\ files[c1][i1].raw["tags"] = Undef
                 /\ files[c2][i2].raw["tags"] = Undef
                 /\ heap'[store[c1][i1].tagsRef] # heap[store[c1][i1].tagsRef])
                    => heap'[store[c2][i2].tagsRef] = heap[store[c2][i2].tagsRef]
       /\ \A c \in Collections : \A i \in DOMAIN store'[c] \ DOMAIN store[c] :
            files[c][i].raw["tags"] = Undef => heap'[store'[c][i].tagsRef] = <<>>
      ]_vars

\* two blog entries that both omitted `tags`: the first was written to, the
\* second has its empty tags
C8_Witness ==
    /\ Len(files["blog"]) >= 2
    /\ Stored("blog", 1) /\ Stored("blog", 2)
    /\ files["blog"][1].raw["tags"] = Undef
    /\ files["blog"][2].raw["tags"] = Undef
    /\ heap[store["blog"][1].tagsRef] = <<Str(<<"z">>)>>
    /\ heap[store["blog"][2].tagsRef] = <<>>

\* C10: queries change nothing: while the collections are queryable no step
\* changes the files, the stored records, their order or their tags, and a
\* query returns what the first query with the same collection and predicate
\* returned, whatever was queried in between.
C10_QueriesChangeNothing ==
    /\ [](\A j \in 1..Len(last) : last[j].value = answers[last[j].key])
    /\ [][pc = "rendering" => (files' = files /\ store' = store /\ heap' = heap)]_vars

\* a query was repeated after a query of another collection
C10_Witness ==
    /\ pc = "rendering"
    /\ last # <<>>
    /\ last[1].key = <<"blog", "published">>
    /\ last[1].repeated
    /\ DOMAIN answers = {<<"blog", "published">>, <<"project", "all">>, <<"blog", "all">>}
    /\ Len(files["blog"]) = 2
    /\ Len(answers[<<"blog", "published">>]) = 1
    /\ Len(answers[<<"blog", "all">>]) = 2
    /\ Len(answers[<<"project", "all">>]) = 1

\* what the schema of collection c takes, told from the front matter alone
Acceptable(c, raw) ==
    \A k \in ShapeKeys(c) :
        IF raw[k] = Undef THEN k \notin {"title", "date"}
        ELSE TypeOK(k, raw[k]) /\ (k \in {"url", "repo"} => Parses(raw[k]))

\* the normalized record of an acceptable entry, told from the front matter alone
Normal(c, raw) == [k \in Keys |-> IF k \in ShapeKeys(c) THEN WithDefaults(raw)[k] ELSE Undef]

AllAcceptable ==
    \A c \in Collections : \A i \in 1..Len(files[c]) : Acceptable(c, files[c][i].raw)

\* C11: the build result does not depend on the order in which the entries
\* are processed: whatever was processed before it, an entry is stored exactly
\* when its own front matter is acceptable, and then with the normalized
\* record its front matter alone determines; in whatever order the entries
\* are taken, a build succeeds only when every entry is acceptable and aborts
\* only when some entry is not.
C11_OrderIndependent ==
    /\ \A c \in Collections : \A i \in 1..Len(files[c]) :
            Processed(c, i) =>
                /\ Stored(c, i) <=> Acceptable(c, files[c][i].raw)
                /\ Stored(c, i) => View(store[c][i]) = Normal(c, files[c][i].raw)
                /\ Stored(c, i) => View(store[c][i]) = Validate(c, files[c][i].raw).data
    /\ pc \in {"rendering", "done"} => AllAcceptable
    /\ pc = "aborted" => ~AllAcceptable

\* a build that took its project entry before its two blog entries, and the
\* second blog entry before the first, which refers to the project
C11_Witness ==
    /\ pc = "done"
    /\ Len(files["blog"]) = 2 /\ Len(files["project"]) = 1
    /\ files["blog"][1].raw["project"] = Str(Chars_GameEngine)
    /\ files["blog"][2].raw["tags"] = Undef
    /\ store["project"][1].tagsRef < store["blog"][2].tagsRef
    /\ store["blog"][2].tagsRef < store["blog"][1].tagsRef
    /\ View(store["blog"][1])["tags"] = TagsAB
    /\ View(store["blog"][2])["tags"] = Arr(<<>>)

\* the key the later version of collection c adds
AddedKey(c) == IF c = "blog" THEN "project" ELSE "thumbnail"

\* the later version took the file and stored, in the fields the two versions
\* share, the values the earlier version gave
SameInLater(e) ==
    /\ Stored(e.coll, e.index)
    /\ \A k \in ShapeKeysEarlier(e.coll) :
            View(store[e.coll][e.index])[k] = e.result.data[k]

\* C12 as stated: every record the earlier blog/project shape accepts is
\* accepted by the later shape of the same collection, with the same
\* normalized values in all fields the two versions share.
C12_AsStated ==
    \A j \in 1..Len(earlier) : earlier[j].result.success => SameInLater(earlier[j])

\* C12, amended: every record the earlier blog/project shape accepts in which
\* the key the later version adds (`project` for blog, `thumbnail` for
\* project) is absent or a string is accepted by the later shape of the same
\* collection, with the same normalized values in all fields the two share.
C12_BackwardCompatible ==
    \A j \in 1..Len(earlier) :
        LET e == earlier[j]
        IN  (/\ e.result.success
             /\ files[e.coll][e.index].raw[AddedKey(e.coll)].t \in {"undefined", "string"})
                => SameInLater(e)

\* a project record with a thumbnail, tags and a url: the earlier version
\* took it and dropped the thumbnail, the later one stored it with the same
\* tags and url
C12_Witness ==
    /\ earlier # <<>>
    /\ earlier[1].coll = "project"
    /\ earlier[1].result.success
    /\ files["project"][1].raw["thumbnail"] = Str(Chars_Thumb)
    /\ files["project"][1].raw["tags"] = TagsAB
    /\ files["project"][1].raw["url"] = Str(Chars_Https)
    /\ earlier[1].result.data["thumbnail"] = Undef
    /\ Stored("project", 1)
    /\ View(store["project"][1])["thumbnail"] = Str(Chars_Thumb)
    /\ View(store["project"][1])["tags"] = earlier[1].result.data["tags"]
    /\ View(store["project"][1])["url"] = earlier[1].result.data["url"]

\* C13: what TaglineClient displays is the empty string or one of the ten
\* entries of `taglines`, and the empty string only while the effect of the
\* first render or the render it asks for is still to come; the tagline is
\* chosen at the first render and no later render changes it or what is
\* displayed once a tagline is displayed.
C13_TaglineChosenOnce ==
    /\ [](/\ Len(taglines) = 10
          /\ component.shown \in {""} \cup {taglines[j] : j \in DOMAIN taglines}
          /\ component.shown # "" => component.shown = component.random
          /\ (component.mounted /\ component.shown = "") =>
                (component.effect \/ component.dirty))
    /\ [][/\ component.mounted => component'.random = component.random
          /\ component.shown # "" => component'.shown = component.shown]_vars

\* the third tagline was drawn, set by the effect, displayed, and is still
\* displayed two renders later
C13_Witness ==
    /\ component.mounted
    /\ component.renders >= 4
    /\ component.random = taglines[3]
    /\ component.text = taglines[3]
    /\ component.shown = taglines[3]
    /\ ~component.effect /\ ~component.dirty

=============================================================================
